---- MODULE Spec2Model ----
(***************************************************************************)
(* Model of the streaming completion core of the Obsidian LLM plugin       *)
(* (src/main.ts): the two hand-written SSE decoders, the streaming sink    *)
(* that folds delta events into the editor, and the context assembler.     *)
(*                                                                         *)
(* Text is modelled by TLA+ strings holding the real characters, so that   *)
(* split('\n'), trim(), startsWith('data: '), indexOf('}{') and the front  *)
(* matter regular expression are computed character by character.          *)
(***************************************************************************)
EXTENDS Integers, Sequences, FiniteSets, TLC

VARIABLES
    \* ---- SSE decoders (parseDeepSeekJSONSSE / parseOpenAISSE)
    parser,         \* which generator runs: "deepseek" | "openai" | "none"
    stream,         \* the whole byte sequence the reader will deliver
    pos,            \* number of characters the reader has delivered so far
    buffer,         \* parseDeepSeekJSONSSE: the carry-over buffer
    lines,          \* the lines of the current chunk still to be processed
    pc,             \* "read" | "lines" | "tail" | "done" | "idle"
    status,         \* "running" | "terminated" | "exhausted" | "failed"
    emitted,        \* the delta texts yielded so far, in order
    splitInMarker,  \* history: some read ended strictly inside a "data: " marker
    sentinelSeen,   \* history: a line `data: [DONE]` has been processed
    processed,      \* history: the lines the for loop of parseDeepSeekJSONSSE
                    \* has visited, in order
    \* ---- streaming sink (executePromptStream)
    doc,            \* editor content
    selFrom,        \* editor selection, from-offset (0-based)
    selTo,          \* editor selection, to-offset
    spc,            \* "start" | "call" | "awaitStream" | "awaitEvent" | "done" | "failed"
                    \* (the provider threw) | "editorFailed" (the editor threw) | "idle"
    llmProvider,    \* the prompt's provider value
    events,         \* the events the provider stream yields when nothing fails
    consumed,       \* number of events pulled from the stream so far
    applied,        \* texts passed to editor.replaceSelection by the loop, in order
    notices,        \* the Notice messages shown, in order
    deletions,      \* how often the initial selection removal ran
    providerCalls,  \* how often a provider adapter was called
    adapters,       \* the adapter methods getPromptStream called, in order
    doc0,           \* history: editor content when the sink started
    from0,          \* history: selection start when the sink started
    to0,            \* history: selection end when the sink started
    error,          \* the message of the exception the provider threw ("" if none)
    userActs,       \* history: how often the user changed cursor/selection
    responseStatus, \* response.status of the adapter's fetch ("" while there is none)
    \* ---- context assembler (executePrompt, first part)
    cpc,            \* "capture" | "built" | "dispatched" | "crashed" | "idle"
    content,        \* editor.getValue()
    cFrom,          \* selection from-offset into content
    cTo,            \* selection to-offset into content
    useSelectionAsInstruction,
    title,          \* the active file's basename
    selectedText,   \* editor.getSelection() as captured by executePrompt
    tags,           \* the tags extracted from the front matter
    note,           \* noteContent: the editor content without front matter
    slicedNote,     \* the note text placed in the context (instruction mode)
    textContent,    \* the single text block
    ctxNotices,     \* the Notice messages shown by executePrompt, in order
    contentArray,   \* the blocks of the request payload, in order
    linkedFiles,    \* the files getLinkedFiles returned, in order
    fileIdx,        \* number of linked files whose loop iteration is over
    discovered,     \* history: the link names found in the scanned text, in order
    linkOf,         \* history: linkOf[i] = index in discovered of linkedFiles[i]
    outcome,        \* history: per discovered link "missing" | "pending" |
                    \* "unreadable" | "unsupported" | "attached"
    \* ---- splitConcatenatedJSON applied to a joined list of objects
    joinedObjects,  \* the JSON object strings that were joined
    pieces,         \* what splitConcatenatedJSON returned for the joined string
    jpc,            \* "join" | "split" | "idle"
    \* ---- invocations of one prompt command on one editor
    edoc,           \* the editor's text
    eFrom,          \* the editor's selection start (offset)
    eTo,            \* the editor's selection end (offset)
    prompt,         \* the prompt object of settings.prompts the command holds
    inv,            \* per invocation: position, captured locals, request, history
    writes,         \* history: the insertions made, <<invocation, text>>, in order
    invNotices,     \* the Notice messages shown by the invocations, in order
    invUserActs,    \* history: how often the user changed cursor/selection
    promptEdits,    \* history: how often the prompt was edited in the settings tab
    \* ---- the command registry kept by saveSettings
    prompts,        \* settings.prompts: the prompt ids, in list order
    registeredCommands, \* this.registeredCommands
    hostCommands,   \* the keys of app.commands.commands
    hostEditorCommands, \* the keys of app.commands.editorCommands
    hostPrefix,     \* what the host puts before a command id it registers
    pendingSaves,   \* saveSettings calls suspended at await this.saveData
    justSaved,      \* history: the last step completed a saveSettings
    removedIds,     \* history: the ids of the prompts deleted so far
    nextId,         \* Date.now() of the next Add Prompt
    regOps          \* history: number of settings-tab operations so far

sseVars  == <<parser, stream, pos, buffer, lines, pc, status, emitted,
              splitInMarker, sentinelSeen, processed>>
sinkVars == <<doc, selFrom, selTo, spc, llmProvider, events, consumed,
              applied, notices, deletions, providerCalls, adapters, error, doc0,
              from0, to0, userActs, responseStatus>>
ctxVars  == <<cpc, content, cFrom, cTo, useSelectionAsInstruction, title,
              selectedText, tags, note, slicedNote, textContent, ctxNotices,
              contentArray, linkedFiles, fileIdx, discovered, linkOf, outcome>>
splitVars == <<joinedObjects, pieces, jpc>>
invVars  == <<edoc, eFrom, eTo, prompt, inv, writes, invNotices, invUserActs,
              promptEdits>>
regVars  == <<prompts, registeredCommands, hostCommands, hostEditorCommands,
              hostPrefix, pendingSaves, justSaved, removedIds, nextId, regOps>>
vars     == <<sseVars, sinkVars, ctxVars, splitVars, invVars, regVars>>

-----------------------------------------------------------------------------
(* String helpers: JavaScript string methods, on TLA+ strings.              *)

\* s.charAt(i-1): the i-th character (1-based), "" outside the string
At(s, i) == IF i >= 1 /\ i <= Len(s) THEN SubSeq(s, i, i) ELSE ""

\* s.substring(a) / s.slice(a) for 0 <= a: the suffix from 0-based offset a
SliceFrom(s, a) == IF a >= Len(s) THEN "" ELSE SubSeq(s, a + 1, Len(s))

\* s.slice(0, b) for 0 <= b: the prefix up to 0-based offset b
SliceTo(s, b) == IF b <= 0 THEN "" ELSE SubSeq(s, 1, IF b > Len(s) THEN Len(s) ELSE b)

\* s.startsWith(p)
StartsWith(s, p) == Len(s) >= Len(p) /\ SubSeq(s, 1, Len(p)) = p

\* s.endsWith(p)
EndsWith(s, p) == Len(s) >= Len(p) /\ SubSeq(s, Len(s) - Len(p) + 1, Len(s)) = p

\* the characters String.prototype.trim and the regex class \s remove
\* (those of them that occur in the modelled texts)
IsWs(c) == c \in {" ", "\t", "\n", "\r", "\f"}

\* the number of white space characters s begins with
LeadWs(s) ==
    CHOOSE k \in 0..Len(s) :
       /\ \A j \in 1..k : IsWs(At(s, j))
       /\ (k = Len(s) \/ ~IsWs(At(s, k + 1)))

\* the number of white space characters s ends with
TrailWs(s) ==
    CHOOSE k \in 0..Len(s) :
       /\ \A j \in (Len(s) - k + 1)..Len(s) : IsWs(At(s, j))
       /\ (k = Len(s) \/ ~IsWs(At(s, Len(s) - k)))

TrimStart(s) == SliceFrom(s, LeadWs(s))

TrimEnd(s) == SliceTo(s, Len(s) - TrailWs(s))

Trim(s) == TrimEnd(TrimStart(s))

\* s.indexOf(p, start) with 1-based positions; 0 when p does not occur
IndexOf(s, p, start) ==
    LET last == Len(s) - Len(p) + 1
        Hit(i) == SubSeq(s, i, i + Len(p) - 1) = p
    IN  IF \E i \in start..last : Hit(i)
        THEN CHOOSE i \in start..last : Hit(i) /\ \A j \in start..(i - 1) : ~Hit(j)
        ELSE 0

\* s.split('\n'): the pieces between newlines, always at least one piece
RECURSIVE SplitFrom(_, _)
SplitFrom(s, start) ==
    LET nl == IndexOf(s, "\n", start)
    IN  IF nl = 0 THEN << SliceFrom(s, start - 1) >>
        ELSE << SubSeq(s, start, nl - 1) >> \o SplitFrom(s, nl + 1)

SplitLines(s) == SplitFrom(s, 1)

\* the concatenation of a sequence of strings
RECURSIVE ConcatAll(_)
ConcatAll(ss) == IF ss = << >> THEN "" ELSE Head(ss) \o ConcatAll(Tail(ss))

AllButLast(ss) == SubSeq(ss, 1, Len(ss) - 1)

-----------------------------------------------------------------------------
(* JSON.parse, exact on the payloads that occur in the modelled streams:    *)
(* an object {"choices":[{"delta":{"content":"X"}}]} with X free of quotes  *)
(* and backslashes, the same object with content null or absent, an empty   *)
(* choices array, and an object without choices.  Every other string the    *)
(* decoders hand to it here (a proper prefix of an object, a piece cut at   *)
(* `}{` inside a string, a line still carrying `data: `, `[DONE]`, `{oops`) *)
(* is not JSON, and JSON.parse throws.                                      *)

ObjPre == "{\"choices\":[{\"delta\":{\"content\":\""
ObjSuf == "\"}}]}"

PlainChars(x) ==
    \A i \in 1..Len(x) : At(x, i) \notin {"\"", "\\", "\n", "\r", "\t", "\f"}

IsContentObj(s) ==
    /\ Len(s) >= Len(ObjPre) + Len(ObjSuf)
    /\ StartsWith(s, ObjPre)
    /\ EndsWith(s, ObjSuf)
    /\ PlainChars(SubSeq(s, Len(ObjPre) + 1, Len(s) - Len(ObjSuf)))

\* ok: parse succeeded; isArray: parsed.choices is an array; nChoices: its
\* length; kind/content: the value of choices[0].delta.content
JSONParse(s) ==
    IF IsContentObj(s)
    THEN [ok |-> TRUE, isArray |-> TRUE, nChoices |-> 1, kind |-> "string",
          content |-> SubSeq(s, Len(ObjPre) + 1, Len(s) - Len(ObjSuf))]
    ELSE IF s = "{\"choices\":[{\"delta\":{\"content\":null}}]}"
    THEN [ok |-> TRUE, isArray |-> TRUE, nChoices |-> 1, kind |-> "null", content |-> ""]
    ELSE IF s = "{\"choices\":[{\"delta\":{}}]}"
    THEN [ok |-> TRUE, isArray |-> TRUE, nChoices |-> 1, kind |-> "undefined", content |-> ""]
    ELSE IF s = "{\"choices\":[]}"
    THEN [ok |-> TRUE, isArray |-> TRUE, nChoices |-> 0, kind |-> "undefined", content |-> ""]
    ELSE IF s = "{\"id\":1}"
    THEN [ok |-> TRUE, isArray |-> FALSE, nChoices |-> 0, kind |-> "undefined", content |-> ""]
    ELSE [ok |-> FALSE, isArray |-> FALSE, nChoices |-> 0, kind |-> "undefined", content |-> ""]

-----------------------------------------------------------------------------
(* The decoders' per-line code.                                             *)

DataMarker == "data: "
DoneSentinel == "[DONE]"

\* splitConcatenatedJSON: cut between every `}` `{` pair
RECURSIVE splitConcatenatedJSONFrom(_, _)
splitConcatenatedJSONFrom(data, start) ==
    LET index == IndexOf(data, "}{", start)
    IN  IF index # 0
        THEN << SubSeq(data, start, index) >> \o splitConcatenatedJSONFrom(data, index + 1)
        ELSE << SliceFrom(data, start - 1) >>

splitConcatenatedJSONUncut(data) == << data >>

splitConcatenatedJSON(data) == splitConcatenatedJSONFrom(data, 1)

\* the body of parseConcatenatedJSON's loop for one object string: the delta
\* texts it yields (none when JSON.parse throws, choices is no array, or the
\* content is missing, null or empty)
ObjectEvents(objString) ==
    LET parsed == JSONParse(objString)
    IN  IF parsed.ok /\ parsed.isArray /\ parsed.kind = "string" /\ parsed.content # ""
        THEN << parsed.content >>
        ELSE << >>

RECURSIVE EventsOfObjects(_)
EventsOfObjects(objects) ==
    IF objects = << >> THEN << >>
    ELSE ObjectEvents(Head(objects)) \o EventsOfObjects(Tail(objects))

parseConcatenatedJSON(data) == EventsOfObjects(splitConcatenatedJSON(data))

\* parseDeepSeekJSONSSE, one iteration of the for loop over complete lines:
\* stop = the generator returns, texts = the delta texts yielded
DeepSeekLineNoReturn(rawLine) ==
    LET line == Trim(rawLine)
    IN  IF ~StartsWith(line, DataMarker) THEN [stop |-> FALSE, texts |-> << >>]
        ELSE [stop |-> FALSE, texts |-> parseConcatenatedJSON(SliceFrom(line, Len(DataMarker)))]

DeepSeekLine(rawLine) ==
    LET line == Trim(rawLine)
    IN  IF ~StartsWith(line, DataMarker) THEN [stop |-> FALSE, texts |-> << >>]
        ELSE LET data == SliceFrom(line, Len(DataMarker))
             IN  IF data = DoneSentinel THEN [stop |-> TRUE, texts |-> << >>]
                 ELSE [stop |-> FALSE, texts |-> parseConcatenatedJSON(data)]

OpenAILineNoReturn(rawLine) ==
    LET line == Trim(rawLine)
    IN  IF ~StartsWith(line, DataMarker) THEN [stop |-> FALSE, texts |-> << >>]
        ELSE LET parsed == JSONParse(SliceFrom(line, Len(DataMarker)))
             IN  IF parsed.ok /\ parsed.nChoices > 0
                 THEN [stop |-> FALSE,
                       texts |-> << IF parsed.kind = "string" THEN parsed.content ELSE "" >>]
                 ELSE [stop |-> FALSE, texts |-> << >>]

\* parseOpenAISSE, one iteration of the for loop over the chunk's lines
OpenAILine(rawLine) ==
    LET line == Trim(rawLine)
    IN  IF ~StartsWith(line, DataMarker) THEN [stop |-> FALSE, texts |-> << >>]
        ELSE LET data == SliceFrom(line, Len(DataMarker))
                 parsed == JSONParse(data)
             IN  IF data = DoneSentinel THEN [stop |-> TRUE, texts |-> << >>]
                 ELSE IF parsed.ok /\ parsed.nChoices > 0
                 THEN [stop |-> FALSE,
                       texts |-> << IF parsed.kind = "string" THEN parsed.content ELSE "" >>]
                 ELSE [stop |-> FALSE, texts |-> << >>]

\* the lines a chunk makes the for loop visit
DeepSeekPendingAll(buf) == SplitLines(buf)

DeepSeekPending(buf) == AllButLast(SplitLines(buf))
OpenAIPending(chunk) == SplitLines(chunk)

\* parseDeepSeekJSONSSE: the buffer kept for the next chunk
CarryOverDropped(ls) == ""
CarryOver(ls) == ls[Len(ls)]

\* parseDeepSeekJSONSSE: the final parse over the leftover buffer
TailEvents(buf) ==
    IF Len(Trim(buf)) > 0 THEN parseConcatenatedJSON(Trim(buf)) ELSE << >>

-----------------------------------------------------------------------------
(* The input streams the reader can deliver.  Each is the text of one HTTP  *)
(* response body; the reader hands it over in chunks of any size.           *)

Obj(x) == ObjPre \o x \o ObjSuf
Frame(x) == DataMarker \o Obj(x)

\* a frame, blank lines, the done sentinel, then two more valid frames
StreamAfterDone == Frame("Hi") \o "\n\ndata: [DONE]\n" \o Frame("z") \o "\n" \o Frame("w") \o "\n"
\* a malformed frame between two valid frames
StreamMalformed == Frame("a") \o "\ndata: {oops\n" \o Frame("b") \o "\n"
\* a non-data field, and a last frame that no newline terminates
StreamNoFinalNewline == "event: ping\n" \o Frame("n")
\* two objects abutted in one payload, CRLF line ends
StreamConcatenated == DataMarker \o Obj("c") \o Obj("d") \o "\r\n"
\* a content string that holds `}{`
StreamBraces == Frame("q}{r") \o "\n"
\* frames without content: absent, empty string, empty choices array
StreamEmpty == "data: {\"choices\":[{\"delta\":{}}]}\ndata: {\"choices\":[]}\n"
               \o Frame("") \o "\n"
\* content null, an object without choices, then a valid frame
StreamNull == "data: {\"choices\":[{\"delta\":{\"content\":null}}]}\ndata: {\"id\":1}\n"
              \o Frame("g") \o "\n"
\* the input ends with an object that no `data: ` marker precedes
StreamBareTail == Obj("k")

Streams == {StreamAfterDone, StreamMalformed, StreamNoFinalNewline,
            StreamConcatenated, StreamBraces, StreamEmpty, StreamNull, StreamBareTail}

Parsers == {"deepseek", "openai"}

-----------------------------------------------------------------------------
(* The decoders as state machines.  pc is the generator's position: at the  *)
(* await of reader.read() ("read"), suspended at a yield inside the for     *)
(* loop over lines ("lines"), after the while loop ("tail"), finished       *)
(* ("done").  One step runs the generator from one suspension to the next.  *)

IdleSSE ==
    /\ parser = "none" /\ stream = "" /\ pos = 0 /\ buffer = "" /\ lines = << >>
    /\ pc = "idle" /\ status = "running" /\ emitted = << >>
    /\ splitInMarker = FALSE /\ sentinelSeen = FALSE /\ processed = << >>

IdleSink ==
    /\ doc = "" /\ selFrom = 0 /\ selTo = 0 /\ spc = "idle" /\ llmProvider = ""
    /\ events = << >> /\ consumed = 0 /\ applied = << >>
    /\ notices = << >> /\ deletions = 0 /\ providerCalls = 0 /\ error = ""
    /\ adapters = << >>
    /\ doc0 = "" /\ from0 = 0 /\ to0 = 0 /\ userActs = 0 /\ responseStatus = ""

IdleCtx ==
    /\ cpc = "idle" /\ content = "" /\ cFrom = 0 /\ cTo = 0
    /\ useSelectionAsInstruction = FALSE /\ title = ""
    /\ selectedText = "" /\ tags = << >> /\ note = ""
    /\ slicedNote = "" /\ textContent = "" /\ ctxNotices = << >>
    /\ contentArray = << >> /\ linkedFiles = << >> /\ fileIdx = 0
    /\ discovered = << >> /\ linkOf = << >> /\ outcome = << >>

IdleSplit == joinedObjects = << >> /\ pieces = << >> /\ jpc = "idle"

IdleInvocations ==
    /\ edoc = "" /\ eFrom = 0 /\ eTo = 0 /\ prompt = << >> /\ inv = << >>
    /\ writes = << >> /\ invNotices = << >> /\ invUserActs = 0 /\ promptEdits = 0

IdleRegistry ==
    /\ prompts = << >> /\ registeredCommands = << >>
    /\ hostCommands = {} /\ hostEditorCommands = {} /\ hostPrefix = ""
    /\ pendingSaves = 0 /\ justSaved = FALSE /\ removedIds = {} /\ nextId = 0
    /\ regOps = 0

InitSSE ==
    /\ parser \in Parsers
    /\ stream \in Streams
    /\ pos = 0 /\ buffer = "" /\ lines = << >>
    /\ pc = "read" /\ status = "running" /\ emitted = << >>
    /\ splitInMarker = FALSE /\ sentinelSeen = FALSE /\ processed = << >>
    /\ IdleSink /\ IdleCtx /\ IdleSplit /\ IdleInvocations /\ IdleRegistry

\* whether the text delivered up to offset p ends strictly inside a marker
\* that begins a line
EndsInsideMarker(p) ==
    \E k \in 1..(Len(DataMarker) - 1) :
       /\ p >= k
       /\ (p = k \/ At(stream, p - k) = "\n")
       /\ StartsWith(SliceFrom(stream, p - k), DataMarker)

LineStep(rawLine) ==
    IF parser = "deepseek" THEN DeepSeekLine(rawLine) ELSE OpenAILine(rawLine)

\* the for loop from line i on, up to its next yield or return, or its end:
\* next = index of the first line not yet visited
RECURSIVE RunToYield(_, _)
RunToYield(ls, i) ==
    IF i > Len(ls) THEN [stop |-> FALSE, texts |-> << >>, next |-> i]
    ELSE LET r == LineStep(ls[i])
         IN  IF r.stop \/ r.texts # << >>
             THEN [stop |-> r.stop, texts |-> r.texts, next |-> i + 1]
             ELSE RunToYield(ls, i + 1)

IsSentinelLine(rawLine) == Trim(rawLine) = DataMarker \o DoneSentinel

\* the effect of running the for loop over the pending lines ls, the buffer
\* holding buf: a return, a yield, or the end of the loop
RunLoop(ls, buf) ==
    LET r == RunToYield(ls, 1)
    IN  /\ emitted' = emitted \o r.texts
        /\ processed' = IF parser = "deepseek"
                        THEN processed \o SubSeq(ls, 1, r.next - 1) ELSE processed
        /\ sentinelSeen' = (sentinelSeen \/ \E i \in 1..(r.next - 1) : IsSentinelLine(ls[i]))
        /\ IF r.stop
           THEN pc' = "done" /\ status' = "terminated" /\ lines' = << >> /\ buffer' = buf
           ELSE IF r.texts # << >>
           THEN /\ pc' = "lines" /\ status' = status /\ buffer' = buf
                /\ lines' = SubSeq(ls, r.next, Len(ls))
           ELSE /\ pc' = "read" /\ status' = status /\ lines' = << >>
                /\ buffer' = IF parser = "deepseek" THEN CarryOver(SplitLines(buf)) ELSE buf

\* reader.read() resolves with the next n characters (value is set)
ReadChunk ==
    /\ pc = "read" /\ pos < Len(stream)
    /\ \E n \in 1..(Len(stream) - pos) :
         LET chunk == SubSeq(stream, pos + 1, pos + n)
         IN  /\ pos' = pos + n
             /\ splitInMarker' = (splitInMarker \/ EndsInsideMarker(pos + n))
             /\ IF parser = "deepseek"
                THEN RunLoop(DeepSeekPending(buffer \o chunk), buffer \o chunk)
                ELSE RunLoop(OpenAIPending(chunk), buffer)
    /\ UNCHANGED <<parser, stream>>
    /\ UNCHANGED <<sinkVars, ctxVars, splitVars, invVars, regVars>>

\* the consumer asks for the next event after a yield: the for loop goes on
Resume ==
    /\ pc = "lines"
    /\ RunLoop(lines, buffer)
    /\ UNCHANGED <<parser, stream, pos, splitInMarker>>
    /\ UNCHANGED <<sinkVars, ctxVars, splitVars, invVars, regVars>>

\* reader.read() resolves with done = true and no value: the while loop ends
ReadEnd ==
    /\ pc = "read" /\ pos = Len(stream)
    /\ IF parser = "deepseek"
       THEN pc' = "tail" /\ status' = status
       ELSE pc' = "done" /\ status' = "exhausted"
    /\ UNCHANGED <<parser, stream, pos, buffer, lines, emitted, splitInMarker, sentinelSeen,
                   processed>>
    /\ UNCHANGED <<sinkVars, ctxVars, splitVars, invVars, regVars>>

\* reader.read() rejects: the exception leaves the generator
ReadFails ==
    /\ pc = "read"
    /\ pc' = "done" /\ status' = "failed"
    /\ UNCHANGED <<parser, stream, pos, buffer, lines, emitted, splitInMarker, sentinelSeen,
                   processed>>
    /\ UNCHANGED <<sinkVars, ctxVars, splitVars, invVars, regVars>>

\* parseDeepSeekJSONSSE after the while loop: one parse over the leftover
ParseTail ==
    /\ pc = "tail"
    /\ emitted' = emitted \o TailEvents(buffer)
    /\ pc' = "done" /\ status' = "exhausted"
    /\ UNCHANGED <<parser, stream, pos, buffer, lines, splitInMarker, sentinelSeen,
                   processed>>
    /\ UNCHANGED <<sinkVars, ctxVars, splitVars, invVars, regVars>>

NextSSE ==
    \/ ReadChunk
    \/ Resume
    \/ ReadEnd
    \/ ReadFails
    \/ ParseTail

SpecSSE == InitSSE /\ [][NextSSE]_vars

-----------------------------------------------------------------------------
(* What the input says, independently of how the decoders cut it: the       *)
(* frames are the lines of the whole input, a frame is valid when its       *)
(* payload is a sequence of JSON objects, and the sentinel line ends it.    *)

Finished == status \in {"terminated", "exhausted"}

\* the JSON objects a payload consists of, found by taking the shortest
\* prefix that is JSON again and again; valid = the payload is used up
RECURSIVE PayloadObjects(_)
PayloadObjects(payload) ==
    IF payload = "" THEN [valid |-> TRUE, objs |-> << >>]
    ELSE IF \E k \in 1..Len(payload) : JSONParse(SliceTo(payload, k)).ok
    THEN LET k == CHOOSE k \in 1..Len(payload) :
                     /\ JSONParse(SliceTo(payload, k)).ok
                     /\ \A j \in 1..(k - 1) : ~JSONParse(SliceTo(payload, j)).ok
             rest == PayloadObjects(SliceFrom(payload, k))
         IN  [valid |-> rest.valid, objs |-> << SliceTo(payload, k) >> \o rest.objs]
    ELSE [valid |-> FALSE, objs |-> << >>]

IsDataLine(rawLine) == StartsWith(Trim(rawLine), DataMarker)

PayloadOf(rawLine) == SliceFrom(Trim(rawLine), Len(DataMarker))

IsMalformedFrame(rawLine) ==
    /\ IsDataLine(rawLine)
    /\ ~IsSentinelLine(rawLine)
    /\ ~PayloadObjects(PayloadOf(rawLine)).valid

\* the non-empty choices[0].delta.content strings of the objects
RECURSIVE ContentsOf(_)
ContentsOf(objs) ==
    IF objs = << >> THEN << >>
    ELSE LET parsed == JSONParse(Head(objs))
         IN  (IF parsed.kind = "string" /\ parsed.content # ""
              THEN << parsed.content >> ELSE << >>) \o ContentsOf(Tail(objs))

FrameContents(rawLine) ==
    IF IsDataLine(rawLine) /\ PayloadObjects(PayloadOf(rawLine)).valid
    THEN ContentsOf(PayloadObjects(PayloadOf(rawLine)).objs)
    ELSE << >>

\* the contents of the valid frames among ls[i..], up to the sentinel line
RECURSIVE ExpectedFrom(_, _)
ExpectedFrom(ls, i) ==
    IF i > Len(ls) \/ IsSentinelLine(ls[i]) THEN << >>
    ELSE FrameContents(ls[i]) \o ExpectedFrom(ls, i + 1)

ExpectedTexts(s) == ExpectedFrom(SplitLines(s), 1)

HasMalformedFrame(s) ==
    LET ls == SplitLines(s)
    IN  \E i \in 1..Len(ls) :
           /\ IsMalformedFrame(ls[i])
           /\ \A j \in 1..(i - 1) : ~IsSentinelLine(ls[j])

\* all texts the for loop yields over ls[i..], and whether it returned
RECURSIVE LoopTexts(_, _)
LoopTexts(ls, i) ==
    LET r == RunToYield(ls, i)
    IN  IF r.stop \/ r.texts = << >> THEN [stop |-> r.stop, texts |-> << >>]
        ELSE LET rest == LoopTexts(ls, r.next)
             IN  [stop |-> rest.stop, texts |-> r.texts \o rest.texts]

\* what parseDeepSeekJSONSSE yields when the whole input arrives as one chunk
OneChunkDeepSeek(s) ==
    LET lp == LoopTexts(DeepSeekPending(s), 1)
    IN  IF lp.stop THEN lp.texts
        ELSE lp.texts \o TailEvents(CarryOver(SplitLines(s)))

NonEmptyText(t) == t # ""

-----------------------------------------------------------------------------
(* Claims about the SSE decoders, checked under SpecSSE.                    *)

\* C1: when parseDeepSeekJSONSSE has finished, the concatenation of the
\* delta texts it emitted equals the concatenation, in arrival order, of the
\* content fields of all valid `data: ` frames of the input that precede the
\* done sentinel or the end of the input.
C1_DeepSeekEmitsAllFrameContents ==
    (parser = "deepseek" /\ Finished)
        => ConcatAll(emitted) = ConcatAll(ExpectedTexts(stream))

\* C2: chunk-boundary invariance of parseDeepSeekJSONSSE: however the reads
\* cut the input (inside a line, inside the `data: ` marker), the sequence of
\* emitted delta texts is the one emitted when the input arrives in one chunk.
C2_DeepSeekChunkInvariant ==
    (parser = "deepseek" /\ Finished) => emitted = OneChunkDeepSeek(stream)

\* C2 witness: a finished DeepSeek run that emitted two deltas although a
\* read ended inside a `data: ` marker.
C2_Witness ==
    /\ parser = "deepseek" /\ status = "exhausted"
    /\ splitInMarker /\ Len(emitted) >= 2

\* C3: when parseOpenAISSE has finished, the concatenation of the delta
\* texts it emitted is the same for every way of cutting the input into
\* chunks, namely the concatenation of the content fields of all valid
\* frames in arrival order.
C3_OpenAIChunkInvariant ==
    (parser = "openai" /\ Finished)
        => ConcatAll(emitted) = ConcatAll(ExpectedTexts(stream))

\* C4: in both decoders, the step that processes a line `data: [DONE]` and
\* every later step emit no delta, and the generator is finished, in state
\* terminated and not failed, from then on.
C4_NothingAfterDone ==
    [][sentinelSeen' => (emitted' = emitted /\ pc' = "done" /\ status' = "terminated")]_vars

\* C4 witness: the sentinel was processed in a chunk that reached the end of
\* an input in which two valid frames follow the sentinel; only the frame
\* before the sentinel was emitted.
C4_Witness ==
    /\ parser = "openai" /\ stream = StreamAfterDone
    /\ sentinelSeen /\ status = "terminated"
    /\ pos = Len(stream) /\ emitted = << "Hi" >>

\* C5: in both decoders, when the input holds a malformed `data: ` frame,
\* every valid frame before and after it still produces its delta event, in
\* order: the non-empty deltas emitted are the contents of the valid frames.
C5_MalformedFrameSkipped ==
    (Finished /\ HasMalformedFrame(stream))
        => SelectSeq(emitted, NonEmptyText) = ExpectedTexts(stream)

-----------------------------------------------------------------------------
(* The streaming sink, executePromptStream.  The editor is its text and its *)
(* selection [selFrom, selTo) in 0-based offsets; a cursor is an empty      *)
(* selection.  The user can move the cursor or select text whenever the     *)
(* sink is suspended at an await.                                           *)

MaxUserActs == 1

Docs == {"abcd"}
\* the values of prompt.llmProvider: the three known names, the empty string
\* and a name no adapter exists for
Providers == {"anthropic", "deepseek", "openai", "", "mistral"}

\* getPromptStream: the adapter method the switch over llmProvider calls
getPromptStreamAlwaysNative(provider) == "createAnthropicStream"

getPromptStream(provider) ==
    IF provider = "deepseek" THEN "createDeepSeekStream"
    ELSE IF provider = "openai" THEN "createOpenAIStream"
    ELSE "createAnthropicStream"

\* stream events: hasDelta = the event has a delta object, hasText = that
\* delta has a text field
Delta(t) == [type |-> "content_block_delta", hasDelta |-> TRUE, hasText |-> TRUE, text |-> t]
Other(ty) == [type |-> ty, hasDelta |-> FALSE, hasText |-> FALSE, text |-> ""]
\* a content_block_delta whose delta carries no text (e.g. input_json_delta)
InputJsonDelta == [type |-> "content_block_delta", hasDelta |-> TRUE, hasText |-> FALSE,
                   text |-> ""]

\* what the provider's stream yields: the SDK's event objects for Anthropic,
\* the decoders' content_block_delta objects for DeepSeek and OpenAI (the
\* OpenAI decoder also yields deltas whose text is empty)
EventLists(provider) ==
    IF provider = "deepseek" THEN { << >>, << Delta("X"), Delta("YZ") >> }
    ELSE IF provider = "openai" THEN { << Delta("X"), Delta(""), Delta("YZ") >> }
    ELSE { << Other("message_start"), Other("content_block_start"), Delta("X"),
              Delta("YZ"), Other("content_block_stop"), Other("message_stop") >>,
           << Delta("X"), InputJsonDelta, Delta("YZ") >> }

\* the messages of the exceptions a provider call or its stream can throw
\* the adapters that call fetch and test response.ok themselves
UsesFetch(provider) ==
    getPromptStream(provider) \in {"createDeepSeekStream", "createOpenAIStream"}

\* response.status of the responses that are not ok
HttpStatuses == {"401", "500"}

HttpErrorMessageNoStatus(provider, st) == "Request failed"

\* `DeepSeek API error: ${response.status} ${response.statusText}` and its
\* OpenAI twin, the status text being empty
HttpErrorMessage(provider, st) ==
    (IF getPromptStream(provider) = "createDeepSeekStream" THEN "DeepSeek" ELSE "OpenAI")
    \o " API error: " \o st \o " "

\* the messages of the exceptions that carry no response: fetch rejecting,
\* the reader rejecting, the SDK failing
TransportErrors(provider) ==
    IF UsesFetch(provider) THEN {"Failed to fetch"} ELSE {"Connection error."}

ErrorMessages(provider) ==
    TransportErrors(provider)
    \cup (IF UsesFetch(provider)
          THEN {HttpErrorMessage(provider, st) : st \in HttpStatuses} ELSE {})

\* editor.replaceSelection(text): the new content
ReplaceKeepsSelection(d, f, t, text) == SliceTo(d, f) \o text \o SliceFrom(d, f)
ReplaceSelection(d, f, t, text) == SliceTo(d, f) \o text \o SliceFrom(d, t)

\* editor.replaceSelection(text): the cursor is placed after the new text
CursorBeforeInsert(f, text) == f
CursorAfterReplace(f, text) == f + Len(text)

\* the loop body of executePromptStream: whether the chunk makes it call
\* editor.replaceSelection, and with which text
\* (defined = FALSE: the text is chunk.delta.text of a delta that has no
\* text field, that is undefined)
ChunkWrite(chunk) ==
    IF chunk.type = "content_block_start"
    THEN [write |-> TRUE, defined |-> TRUE,
          text |-> IF chunk.hasDelta /\ chunk.hasText THEN chunk.text ELSE ""]
    ELSE IF chunk.type = "content_block_delta"
    THEN [write |-> TRUE, defined |-> chunk.hasText, text |-> chunk.text]
    ELSE [write |-> FALSE, defined |-> TRUE, text |-> ""]

\* editor.replaceSelection(undefined): what the host editor does with an
\* argument that is no string is not fixed by this code; it either takes it
\* as no text or throws a TypeError
UndefinedTextOutcomes == {"noText", "throws"}

EditorErrors == {"Cannot read properties of undefined (reading 'length')"}

\* the catch block: new Notice('Error: ' + error.message)
NoticeSwallowed(ns, msg) == ns
ErrorNotice(ns, msg) == Append(ns, "Error: " \o msg)

InitSink ==
    /\ doc \in Docs
    /\ selFrom \in 0..Len(doc) /\ selTo \in selFrom..Len(doc)
    /\ llmProvider \in Providers
    /\ events \in EventLists(llmProvider)
    /\ spc = "start" /\ consumed = 0 /\ applied = << >> /\ notices = << >>
    /\ deletions = 0 /\ providerCalls = 0 /\ error = "" /\ userActs = 0
    /\ adapters = << >> /\ responseStatus = ""
    /\ doc0 = doc /\ from0 = selFrom /\ to0 = selTo
    /\ IdleSSE /\ IdleCtx /\ IdleSplit /\ IdleInvocations /\ IdleRegistry

sinkConst == <<llmProvider, events, doc0, from0, to0>>

\* const cursorFrom = editor.getCursor('from'); editor.replaceSelection('');
\* editor.setCursor(cursorFrom)
RemoveSelection ==
    /\ spc = "start"
    /\ LET cursorFrom == selFrom
       IN  /\ doc' = ReplaceSelection(doc, selFrom, selTo, "")
           /\ selFrom' = cursorFrom /\ selTo' = cursorFrom
    /\ deletions' = deletions + 1
    /\ spc' = "call"
    /\ UNCHANGED <<consumed, applied, notices, providerCalls, adapters, error, userActs,
                   sinkConst,
                   responseStatus>>
    /\ UNCHANGED <<sseVars, ctxVars, splitVars, invVars, regVars>>

\* this.getPromptStream(...): the adapter is called and the request issued
CallProvider ==
    /\ spc = "call"
    /\ providerCalls' = providerCalls + 1
    /\ adapters' = Append(adapters, getPromptStream(llmProvider))
    /\ spc' = "awaitStream"
    /\ UNCHANGED <<doc, selFrom, selTo, consumed, applied, notices, deletions, error,
                   userActs, sinkConst,
                   responseStatus>>
    /\ UNCHANGED <<sseVars, ctxVars, splitVars, invVars, regVars>>

\* the awaited provider call resolves with the stream
StreamCreated ==
    /\ spc = "awaitStream"
    /\ spc' = "awaitEvent"
    /\ responseStatus' = IF UsesFetch(llmProvider) THEN "200" ELSE responseStatus
    /\ UNCHANGED <<doc, selFrom, selTo, consumed, applied, notices, deletions,
                   providerCalls, adapters, error, userActs, sinkConst>>
    /\ UNCHANGED <<sseVars, ctxVars, splitVars, invVars, regVars>>

\* the adapter's fetch resolves with a response that is not ok: the adapter
\* throws before it creates a parser, the catch block shows one Notice
ResponseNotOk ==
    /\ spc = "awaitStream" /\ UsesFetch(llmProvider)
    /\ \E st \in HttpStatuses :
          /\ responseStatus' = st
          /\ error' = HttpErrorMessage(llmProvider, st)
          /\ notices' = ErrorNotice(notices, HttpErrorMessage(llmProvider, st))
    /\ spc' = "failed"
    /\ UNCHANGED <<doc, selFrom, selTo, consumed, applied, deletions, providerCalls,
                   adapters, userActs, sinkConst>>
    /\ UNCHANGED <<sseVars, ctxVars, splitVars, invVars, regVars>>

\* the awaited provider call rejects without a response (transport failure,
\* SDK exception): the catch block shows one Notice
CreateFails ==
    /\ spc = "awaitStream"
    /\ \E msg \in TransportErrors(llmProvider) :
          /\ error' = msg
          /\ notices' = ErrorNotice(notices, msg)
    /\ spc' = "failed"
    /\ UNCHANGED <<doc, selFrom, selTo, consumed, applied, deletions, providerCalls,
                   adapters, userActs, sinkConst,
                   responseStatus>>
    /\ UNCHANGED <<sseVars, ctxVars, splitVars, invVars, regVars>>

\* for await: the stream yields its next chunk and the loop body runs
NextEvent ==
    /\ spc = "awaitEvent" /\ consumed < Len(events)
    /\ LET w == ChunkWrite(events[consumed + 1])
       IN  /\ w.defined \/ "noText" \in UndefinedTextOutcomes
           /\ IF w.write
              THEN /\ doc' = ReplaceSelection(doc, selFrom, selTo, w.text)
                   /\ selFrom' = CursorAfterReplace(selFrom, w.text)
                   /\ selTo' = CursorAfterReplace(selFrom, w.text)
                   /\ applied' = Append(applied, w.text)
              ELSE UNCHANGED <<doc, selFrom, selTo, applied>>
    /\ consumed' = consumed + 1
    /\ UNCHANGED <<spc, notices, deletions, providerCalls, adapters, error, userActs,
                   sinkConst,
                   responseStatus>>
    /\ UNCHANGED <<sseVars, ctxVars, splitVars, invVars, regVars>>

\* for await: the stream yields a delta without text and the editor throws
\* on replaceSelection(undefined); the catch block shows one Notice and the
\* method ends
EditorThrows ==
    /\ spc = "awaitEvent" /\ consumed < Len(events)
    /\ ~ChunkWrite(events[consumed + 1]).defined
    /\ "throws" \in UndefinedTextOutcomes
    /\ \E msg \in EditorErrors :
          /\ error' = msg
          /\ notices' = ErrorNotice(notices, msg)
    /\ consumed' = consumed + 1
    /\ spc' = "editorFailed"
    /\ UNCHANGED <<doc, selFrom, selTo, applied, deletions, providerCalls, adapters,
                   userActs, sinkConst,
                   responseStatus>>
    /\ UNCHANGED <<sseVars, ctxVars, splitVars, invVars, regVars>>

\* for await: the stream is exhausted, the loop and the method end
StreamEnds ==
    /\ spc = "awaitEvent" /\ consumed = Len(events)
    /\ spc' = "done"
    /\ UNCHANGED <<doc, selFrom, selTo, consumed, applied, notices, deletions,
                   providerCalls, adapters, error, userActs, sinkConst,
                   responseStatus>>
    /\ UNCHANGED <<sseVars, ctxVars, splitVars, invVars, regVars>>

\* for await: the stream throws instead of yielding; the catch block shows
\* one Notice and the method ends
StreamThrows ==
    /\ spc = "awaitEvent"
    /\ \E msg \in TransportErrors(llmProvider) :
          /\ error' = msg
          /\ notices' = ErrorNotice(notices, msg)
    /\ spc' = "failed"
    /\ UNCHANGED <<doc, selFrom, selTo, consumed, applied, deletions, providerCalls,
                   adapters, userActs, sinkConst,
                   responseStatus>>
    /\ UNCHANGED <<sseVars, ctxVars, splitVars, invVars, regVars>>

\* the user moves the cursor (a = b) or selects text (a < b) in the editor
UserSelects ==
    /\ spc \in {"awaitStream", "awaitEvent", "done", "failed", "editorFailed"}
    /\ userActs < MaxUserActs
    /\ \E a \in 0..Len(doc) : \E b \in a..Len(doc) :
          /\ <<a, b>> # <<selFrom, selTo>>
          /\ selFrom' = a /\ selTo' = b
    /\ userActs' = userActs + 1
    /\ UNCHANGED <<doc, spc, consumed, applied, notices, deletions, providerCalls,
                   adapters, error, sinkConst,
                   responseStatus>>
    /\ UNCHANGED <<sseVars, ctxVars, splitVars, invVars, regVars>>

NextSink ==
    \/ RemoveSelection
    \/ CallProvider
    \/ StreamCreated
    \/ ResponseNotOk
    \/ CreateFails
    \/ NextEvent
    \/ EditorThrows
    \/ StreamEnds
    \/ StreamThrows
    \/ UserSelects

SpecSink == InitSink /\ [][NextSink]_vars

-----------------------------------------------------------------------------
(* Claims about the streaming sink, checked under SpecSink.                 *)

\* the text before / after the selection the sink found when it started
Pre0 == SliceTo(doc0, from0)
Post0 == SliceFrom(doc0, to0)

\* the events the loop has pulled from the stream so far
ConsumedEvents == SubSeq(events, 1, consumed)

\* the texts of the content-block deltas among the events evs, in order
RECURSIVE DeltaTexts(_)
DeltaTexts(evs) ==
    IF evs = << >> THEN << >>
    ELSE (IF Head(evs).type = "content_block_delta" THEN << Head(evs).text >> ELSE << >>)
         \o DeltaTexts(Tail(evs))

\* the document that holds the consumed delta texts as one run at the place
\* of the initial selection
StableDoc == Pre0 \o ConcatAll(DeltaTexts(ConsumedEvents)) \o Post0

\* C6: the initial removal of the selection runs exactly once per invocation,
\* before the provider is called and before any text is applied, and leaves
\* the cursor at the selection's start; when the provider fails before it
\* yields any event, the document is the original one without the selection,
\* nothing was inserted and exactly one notice is shown.
C6_SelectionRemovedOnceFirst ==
    /\ deletions = (IF spc = "start" THEN 0 ELSE 1)
    /\ providerCalls <= deletions
    /\ (applied # << >> => (deletions = 1 /\ providerCalls = 1))
    /\ (spc = "call" => (doc = Pre0 \o Post0 /\ selFrom = from0 /\ selTo = from0))
    /\ ((spc = "failed" /\ consumed = 0)
           => (doc = Pre0 \o Post0 /\ applied = << >> /\ Len(notices) = 1))

\* C6 witness: a non-empty selection was removed, the provider was called
\* once and failed before any event, one notice is shown.
C6_Witness ==
    /\ spc = "failed" /\ consumed = 0 /\ from0 < to0
    /\ deletions = 1 /\ providerCalls = 1
    /\ doc = Pre0 \o Post0 /\ Len(notices) = 1

\* C7: in a run without user interaction, after each event the document is
\* the text before the original selection, the delta texts consumed so far in
\* event order, and the text after the original selection, with the cursor
\* behind the last inserted text; on completion all events are consumed.
C7_DeltasInsertedInOrder ==
    (userActs = 0 /\ spc \in {"awaitEvent", "done"})
        => /\ doc = StableDoc
           /\ selFrom = from0 + Len(ConcatAll(DeltaTexts(ConsumedEvents)))
           /\ selTo = selFrom
           /\ SelectSeq(applied, NonEmptyText)
                 = SelectSeq(DeltaTexts(ConsumedEvents), NonEmptyText)
           /\ (spc = "done" => consumed = Len(events))

\* C7 witness: a completed run without user interaction that replaced the
\* selection "bc" of "abcd" by the two deltas "X" and "YZ".
C7_Witness ==
    /\ spc = "done" /\ userActs = 0
    /\ doc0 = "abcd" /\ from0 = 1 /\ to0 = 3
    /\ doc = "aXYZd"

\* C8: the delta texts of an invocation form one contiguous run that begins
\* where the initial selection started, and nothing but the initial selection
\* is removed, also when the user moves the cursor or selects text while the
\* stream is in progress.
C8_StableInsertionPoint ==
    spc \in {"awaitEvent", "done", "failed"} => doc = StableDoc

-----------------------------------------------------------------------------
(* The context assembler: the first part of executePrompt, up to the text   *)
(* block pushed onto contentArray.                                          *)

\* the last position of the run of white space that begins at position i
\* (i - 1 when the character at i is no white space)
WsRunEnd(s, i) == i - 1 + LeadWs(SliceFrom(s, i - 1))

\* content.match(/^---\s*\n([\s\S]*?)\n---\s*\n?/).  The greedy \s* after the
\* opening dashes is tried longest first, so the newline that ends the
\* opening line is the last newline p of the white space run for which a
\* closing "\n---" exists at some q > p; the lazy group takes the first such
\* q, and the trailing \s* takes the whole white space run after the dashes.
\* len = match[0].length, yaml = match[1]
YamlMatch(c) ==
    LET openers == {p \in 4..WsRunEnd(c, 4) :
                       At(c, p) = "\n" /\ IndexOf(c, "\n---", p + 1) # 0}
    IN  IF StartsWith(c, "---") /\ openers # {}
        THEN LET p == CHOOSE x \in openers : \A y \in openers : y <= x
                 q == IndexOf(c, "\n---", p + 1)
             IN  [found |-> TRUE, len |-> WsRunEnd(c, q + 4),
                  yaml |-> SubSeq(c, p + 1, q - 1)]
        ELSE [found |-> FALSE, len |-> 0, yaml |-> ""]

\* YAML.parse on the front matter texts of the modelled notes: the value of
\* the tags key as the code reads it, or an exception.  An empty document
\* parses to null.
YamlParse(yamlContent) ==
    IF yamlContent = "tags: x" THEN [ok |-> TRUE, isNull |-> FALSE, tags |-> << "x" >>]
    ELSE IF yamlContent = "tags: [a, b]"
    THEN [ok |-> TRUE, isNull |-> FALSE, tags |-> << "a", "b" >>]
    ELSE IF yamlContent = "k: 1" THEN [ok |-> TRUE, isNull |-> FALSE, tags |-> << >>]
    ELSE IF Trim(yamlContent) = "" THEN [ok |-> TRUE, isNull |-> TRUE, tags |-> << >>]
    ELSE [ok |-> FALSE, isNull |-> FALSE, tags |-> << >>]

YamlErrorSwallowed == << >>

\* new Notice('Error parsing YAML front matter: ' + error.message)
YamlErrorNotice == << "Error parsing YAML front matter: " >>

\* extractYamlAndContentFromEditor: tags, noteContent and the notices shown;
\* throws: reading parsedYaml.tags of a null document raises a TypeError
\* outside the try block
extractYamlAndContentFromEditor(c) ==
    LET match == YamlMatch(c)
        parsedYaml == YamlParse(match.yaml)
    IN  IF match.found
        THEN [tags |-> IF parsedYaml.ok THEN parsedYaml.tags ELSE << >>,
              noteContent |-> TrimStart(SliceFrom(c, match.len)),
              notices |-> IF parsedYaml.ok THEN << >> ELSE YamlErrorNotice,
              throws |-> parsedYaml.ok /\ parsedYaml.isNull]
        ELSE [tags |-> << >>, noteContent |-> c, notices |-> << >>, throws |-> FALSE]

\* tags.join(";")
RECURSIVE JoinTags(_)
JoinTags(ts) ==
    IF ts = << >> THEN ""
    ELSE IF Len(ts) = 1 THEN ts[1]
    ELSE ts[1] \o ";" \o JoinTags(Tail(ts))

createContentOneLine(ti, ts, n) ==
    "<title>" \o ti \o "</title><tags>" \o JoinTags(ts) \o "</tags><note>" \o n \o "</note>"

createContent(ti, ts, n) ==
    "<title>" \o ti \o "</title>\n<tags>" \o JoinTags(ts) \o "</tags>\n<note>" \o n \o "</note>"

createTaskSelectionContent(ti, ts, n, sel) ==
    "<instruction>" \o sel \o "</instruction>\n<context>\n<title>" \o ti
    \o "</title>\n<tags>" \o JoinTags(ts) \o "</tags>\n<note>" \o n \o "</note>\n</context>"

createSelectionContentTrimmed(sel) == "<instruction>" \o Trim(sel) \o "</instruction>"

createSelectionContent(sel) == "<instruction>" \o sel \o "</instruction>"

\* note.slice(0, fromOffset) + note.slice(toOffset), the offsets being
\* editor.posToOffset of the selection's ends
SliceSelection(n, c, fromOffset, toOffset) ==
    SliceTo(n, fromOffset) \o SliceFrom(n, toOffset)

\* file ? file.basename : 'Untitled'
Titles == {"T", "Untitled"}

Contents == { "ABCDEF",
              "---\ntags: x\n---\nABCDEF",
              "---\ntags: [a, b]\n---\n\nAB",
              "---\nk: [\n---\nAB",
              "---\n\n---\nAB",
              "---\n---\nAB",
              " AB\n" }

-----------------------------------------------------------------------------
(* Attachments: getLinkedFiles, getMediaType and the loop of executePrompt  *)
(* that reads every linked file and appends its block to contentArray.      *)

\* the files of the vault, as metadataCache.getFirstLinkpathDest finds them
\* by link name; extension is TFile.extension
Vault == { [path |-> "a.png", extension |-> "png"],
           [path |-> "b.jpg", extension |-> "jpg"],
           [path |-> "c.jpeg", extension |-> "jpeg"],
           [path |-> "e.gif", extension |-> "gif"],
           [path |-> "f.bmp", extension |-> "bmp"],
           [path |-> "g.svg", extension |-> "svg"],
           [path |-> "d.pdf", extension |-> "pdf"],
           [path |-> "n.txt", extension |-> "txt"],
           [path |-> "U.PNG", extension |-> "PNG"],
           [path |-> "V.PDF", extension |-> "PDF"],
           [path |-> "noext", extension |-> ""] }

\* linkedFile instanceof TFile
IsTFile(fileName) == \E f \in Vault : f.path = fileName

getFirstLinkpathDest(fileName) == CHOOSE f \in Vault : f.path = fileName

UpperLetters == "ABCDEFGHIJKLMNOPQRSTUVWXYZ"
LowerLetters == "abcdefghijklmnopqrstuvwxyz"

RECURSIVE ToLowerCase(_)
ToLowerCase(x) ==
    IF x = "" THEN ""
    ELSE LET c == At(x, 1)
             k == IndexOf(UpperLetters, c, 1)
         IN  (IF k # 0 THEN At(LowerLetters, k) ELSE c) \o ToLowerCase(SliceFrom(x, 1))

getMediaType(extension) ==
    LET e == ToLowerCase(extension)
    IN  IF e = "pdf" THEN "application/pdf"
        ELSE IF e = "png" THEN "image/png"
        ELSE IF e \in {"jpg", "jpeg"} THEN "image/jpeg"
        ELSE IF e = "gif" THEN "image/gif"
        ELSE IF e = "bmp" THEN "image/bmp"
        ELSE IF e = "svg" THEN "image/svg+xml"
        ELSE "application/octet-stream"

ImageExtensions == {"png", "jpg", "jpeg", "gif", "bmp", "svg"}

\* linkRegex = /!\[\[([^\]]+)\]\]/ tried at position i: "![[", then all the
\* characters up to the first "]" (at least one), then "]]"
LinkMatchAt(s, i) ==
    LET j == IndexOf(s, "]", i + 3)
    IN  IF /\ i + 2 <= Len(s) /\ SubSeq(s, i, i + 2) = "![["
           /\ j > i + 3 /\ j + 1 <= Len(s) /\ At(s, j + 1) = "]"
        THEN [found |-> TRUE, fileName |-> SubSeq(s, i + 3, j - 1), last |-> j + 1]
        ELSE [found |-> FALSE, fileName |-> "", last |-> 0]

\* the while loop of getLinkedFiles: the names linkRegex.exec finds from
\* position start on, in order
RECURSIVE LinkNamesFrom(_, _)
LinkNamesFrom(s, start) ==
    IF \E i \in start..Len(s) : LinkMatchAt(s, i).found
    THEN LET i == CHOOSE i \in start..Len(s) :
                     /\ LinkMatchAt(s, i).found
                     /\ \A k \in start..(i - 1) : ~LinkMatchAt(s, k).found
             m == LinkMatchAt(s, i)
         IN  << m.fileName >> \o LinkNamesFrom(s, m.last + 1)
    ELSE << >>

LinkNames(s) == LinkNamesFrom(s, 1)

\* getLinkedFiles over the names found: the resolved files with the index of
\* their link, and one notice per name that resolves to no file
RECURSIVE ResolveFrom(_, _)
ResolveFrom(names, i) ==
    IF i > Len(names) THEN [files |-> << >>, links |-> << >>, notices |-> << >>]
    ELSE LET rest == ResolveFrom(names, i + 1)
         IN  IF IsTFile(names[i])
             THEN [files |-> << getFirstLinkpathDest(names[i]) >> \o rest.files,
                   links |-> << i >> \o rest.links,
                   notices |-> rest.notices]
             ELSE [files |-> rest.files, links |-> rest.links,
                   notices |-> << "File not found: " \o names[i] >> \o rest.notices]

getLinkedFiles(s) == ResolveFrom(LinkNames(s), 1)

\* Buffer.from(data).toString('base64') of the file's bytes
Base64Of(file) == "base64:" \o file.path

TextBlock(text) == [type |-> "text", text |-> text]

\* contentArray.push(...)
PushFront(arr, blocks) == blocks \o arr
Push(arr, blocks) == arr \o blocks

\* the loop body of executePrompt after a successful read: the block pushed
\* for the file, or none
FileBlockByMediaType(file) ==
    IF getMediaType(file.extension) = "application/pdf"
    THEN << [type |-> "document", media_type |-> "application/pdf", data |-> Base64Of(file)] >>
    ELSE << [type |-> "image", media_type |-> getMediaType(file.extension),
             data |-> Base64Of(file)] >>

FileBlock(file) ==
    IF file.extension = "pdf"
    THEN << [type |-> "document", media_type |-> "application/pdf", data |-> Base64Of(file)] >>
    ELSE IF file.extension \in ImageExtensions
    THEN << [type |-> "image", media_type |-> getMediaType(file.extension),
             data |-> Base64Of(file)] >>
    ELSE << >>

UnsupportedNotice(file) == "Unsupported file type: " \o file.extension

ReadErrors == {"ENOENT"}

ReadErrorSwallowed(ns, file, msg) == ns

ReadErrorNotice(ns, file, msg) ==
    Append(ns, "Error reading file " \o file.path \o ": " \o msg)

\* notes with embed links
LinkContents == { "![[a.png]] ![[missing.png]] ![[d.pdf]]",
                  "![[b.jpg]]![[c.jpeg]]![[n.txt]]",
                  "![[e.gif]]![[f.bmp]]![[g.svg]]",
                  "![[U.PNG]]![[V.PDF]]",
                  "![[missing.png]]",
                  "![[]]![[a.png]![[noext]]" }

\* the selections tried on a note with links: none, everything, the first
\* ten characters, a piece inside the first link
LinkSelections(c) == { <<0, 0>>, <<0, Len(c)>>, <<0, 10>>, <<3, 5>> }

InitCtx ==
    /\ content \in Contents \cup LinkContents
    /\ cFrom \in 0..Len(content) /\ cTo \in cFrom..Len(content)
    /\ (content \in LinkContents => <<cFrom, cTo>> \in LinkSelections(content))
    /\ useSelectionAsInstruction \in BOOLEAN
    /\ title \in Titles
    /\ cpc = "capture"
    /\ selectedText = "" /\ tags = << >> /\ note = ""
    /\ slicedNote = "" /\ textContent = "" /\ ctxNotices = << >>
    /\ contentArray = << >> /\ linkedFiles = << >> /\ fileIdx = 0
    /\ discovered = << >> /\ linkOf = << >> /\ outcome = << >>
    /\ IdleSSE /\ IdleSink /\ IdleSplit /\ IdleInvocations /\ IdleRegistry

\* executePrompt from its entry to its first suspension, at the await of
\* getLinkedFiles: the text block is pushed and the links are resolved; or to
\* the exception that leaves extractYamlAndContentFromEditor
AssembleContext ==
    /\ cpc = "capture"
    /\ LET sel == SubSeq(content, cFrom + 1, cTo)
           ex == extractYamlAndContentFromEditor(content)
           sliced == SliceSelection(ex.noteContent, content, cFrom, cTo)
           text == IF sel # ""
                   THEN IF useSelectionAsInstruction
                        THEN createTaskSelectionContent(title, ex.tags, sliced, sel)
                        ELSE createSelectionContent(sel)
                   ELSE createContent(title, ex.tags, ex.noteContent)
           scanned == ex.noteContent \o "\n" \o sel
           linked == getLinkedFiles(scanned)
       IN  IF ex.throws
           THEN /\ selectedText' = sel
                /\ cpc' = "crashed"
                /\ UNCHANGED <<tags, note, slicedNote, textContent, contentArray,
                               discovered, linkedFiles, linkOf, outcome, ctxNotices>>
           ELSE
           /\ cpc' = "built"
           /\ selectedText' = sel
           /\ tags' = ex.tags
           /\ note' = ex.noteContent
           /\ slicedNote' = IF sel # "" /\ useSelectionAsInstruction THEN sliced ELSE slicedNote
           /\ textContent' = text
           /\ contentArray' = Push(<< >>, << TextBlock(text) >>)
           /\ discovered' = LinkNames(scanned)
           /\ linkedFiles' = linked.files
           /\ linkOf' = linked.links
           /\ outcome' = [i \in 1..Len(LinkNames(scanned)) |->
                             IF IsTFile(LinkNames(scanned)[i]) THEN "pending" ELSE "missing"]
           /\ ctxNotices' = ex.notices \o linked.notices
    /\ UNCHANGED <<content, cFrom, cTo, useSelectionAsInstruction, title, fileIdx>>
    /\ UNCHANGED <<sseVars, sinkVars, splitVars, invVars, regVars>>

ctxConst == <<content, cFrom, cTo, useSelectionAsInstruction, title, selectedText,
              tags, note, slicedNote, textContent, discovered, linkedFiles, linkOf>>

\* one iteration of the loop over linkedFiles in which readBinary resolves:
\* a block is pushed, or the unsupported-type notice is shown
ReadFile ==
    /\ cpc = "built" /\ fileIdx < Len(linkedFiles)
    /\ LET file == linkedFiles[fileIdx + 1]
           block == FileBlock(file)
       IN  /\ contentArray' = Push(contentArray, block)
           /\ ctxNotices' = IF block = << >> THEN Append(ctxNotices, UnsupportedNotice(file))
                            ELSE ctxNotices
           /\ outcome' = [outcome EXCEPT ![linkOf[fileIdx + 1]] =
                             IF block = << >> THEN "unsupported" ELSE "attached"]
    /\ fileIdx' = fileIdx + 1
    /\ UNCHANGED <<cpc, ctxConst>>
    /\ UNCHANGED <<sseVars, sinkVars, splitVars, invVars, regVars>>

\* one iteration in which readBinary rejects: the catch block shows a notice
ReadFileFails ==
    /\ cpc = "built" /\ fileIdx < Len(linkedFiles)
    /\ \E msg \in ReadErrors :
          ctxNotices' = ReadErrorNotice(ctxNotices, linkedFiles[fileIdx + 1], msg)
    /\ outcome' = [outcome EXCEPT ![linkOf[fileIdx + 1]] = "unreadable"]
    /\ fileIdx' = fileIdx + 1
    /\ UNCHANGED <<cpc, contentArray, ctxConst>>
    /\ UNCHANGED <<sseVars, sinkVars, splitVars, invVars, regVars>>

\* the loop is over: this.executePromptStream(systemPrompt, contentArray, ...)
Dispatch ==
    /\ cpc = "built" /\ fileIdx = Len(linkedFiles)
    /\ cpc' = "dispatched"
    /\ UNCHANGED <<ctxNotices, contentArray, outcome, fileIdx, ctxConst>>
    /\ UNCHANGED <<sseVars, sinkVars, splitVars, invVars, regVars>>

NextCtx ==
    \/ AssembleContext
    \/ ReadFile
    \/ ReadFileFails
    \/ Dispatch

SpecCtx == InitCtx /\ [][NextCtx]_vars

-----------------------------------------------------------------------------
(* Claims about the context assembler, checked under SpecCtx.               *)

\* the offset in the editor content at which the front-matter-free body begins
BodyStart == Len(content) - Len(note)

\* the body with exactly the selected characters removed: the characters of
\* the body that lie outside the selection [cFrom, cTo) of the editor content
BodyWithoutSelection ==
    LET a == IF cFrom > BodyStart THEN cFrom - BodyStart ELSE 0
        b == IF cTo > BodyStart THEN cTo - BodyStart ELSE 0
    IN  SliceTo(note, a) \o SliceFrom(note, b)

\* C10: in instruction mode with a non-empty selection, for every note, with
\* or without front matter, the note text placed in the context is the
\* front-matter-free body with exactly the selected characters removed, and
\* the text block wraps exactly the selected text in <instruction>.
C10_InstructionModeSlicesBody ==
    (cpc = "built" /\ useSelectionAsInstruction /\ selectedText # "")
        => /\ slicedNote = BodyWithoutSelection
           /\ textContent = createTaskSelectionContent(title, tags, BodyWithoutSelection,
                                                       SubSeq(content, cFrom + 1, cTo))

\* C11: a selection that is not empty but holds white space only is treated
\* as no selection: in both selection modes the text block is the whole-note
\* template built from title, tags and note.
C11_WhitespaceSelectionIsNoSelection ==
    (cpc = "built" /\ selectedText # "" /\ Trim(selectedText) = "")
        => textContent = "<title>" \o title \o "</title>\n<tags>" \o JoinTags(tags)
                         \o "</tags>\n<note>" \o note \o "</note>"

\* C12: with no selection the text block is exactly <title>, the title,
\* </title>, a newline, <tags>, the tags joined by ";", </tags>, a newline,
\* <note>, the body and </note>, for every title, tag list and body.
C12_WholeNoteTemplate ==
    (cpc = "built" /\ cFrom = cTo)
        => textContent = "<title>" \o title \o "</title>\n<tags>" \o JoinTags(tags)
                         \o "</tags>\n<note>" \o note \o "</note>"

\* C12 witness: the note with tags a and b and body AB, nothing selected.
C12_Witness ==
    /\ cpc = "built" /\ cFrom = cTo /\ title = "T"
    /\ tags = << "a", "b" >> /\ note = "AB"
    /\ textContent = "<title>T</title>\n<tags>a;b</tags>\n<note>AB</note>"

-----------------------------------------------------------------------------
(* Claims about the request payload, checked under SpecCtx.                 *)

\* the indices of the discovered links whose file was attached
AttachedLinks == {i \in 1..Len(discovered) : outcome[i] = "attached"}

\* the k-th smallest element of the set of numbers S
KthOf(S, k) == CHOOSE i \in S : Cardinality({j \in S : j < i}) = k - 1

\* the blocks of contentArray after the first
Attachments == SubSeq(contentArray, 2, Len(contentArray))

\* C14: the payload handed to executePromptStream holds exactly one text
\* block, at position 0, holding the assembled text, followed by attachment
\* blocks only, which stand in the order in which their embed links were
\* discovered in the scanned text.
C14_TextBlockThenAttachmentsInOrder ==
    cpc = "dispatched"
        => /\ Len(contentArray) >= 1
           /\ contentArray[1] = [type |-> "text", text |-> textContent]
           /\ \A k \in 1..Len(Attachments) : Attachments[k].type \in {"image", "document"}
           /\ Len(Attachments) = Cardinality(AttachedLinks)
           /\ \A k \in 1..Len(Attachments) :
                 Attachments[k].data = "base64:" \o discovered[KthOf(AttachedLinks, k)]

\* C14 witness: a payload of three blocks: the text, the image a.png and
\* the document d.pdf, the unresolved link between them left out.
C14_Witness ==
    /\ cpc = "dispatched" /\ Len(contentArray) = 3
    /\ discovered = << "a.png", "missing.png", "d.pdf" >>
    /\ contentArray[1].type = "text"
    /\ contentArray[2].data = "base64:a.png"
    /\ contentArray[3].type = "document"

IsNotFoundNotice(n) == StartsWith(n, "File not found: ")
IsReadErrorNotice(n) == StartsWith(n, "Error reading file ")

HasBlockFor(fileName) ==
    \E k \in 1..Len(Attachments) : Attachments[k].data = "base64:" \o fileName

FileOfBlock(b) == CHOOSE f \in Vault : "base64:" \o f.path = b.data

\* C16: every attachment block is an image block of a file whose extension
\* is png, jpg, jpeg, gif, bmp or svg, with the media type the table gives
\* for that extension, or a document block with media type application/pdf
\* of a pdf file; a file of any other extension that was read has produced
\* the unsupported-type notice and no block, and no block carries the media
\* type application/octet-stream.
C16_AttachmentTypesAndMediaTypes ==
    /\ \A k \in 1..Len(Attachments) :
          LET b == Attachments[k]
              e == FileOfBlock(b).extension
          IN  /\ \/ /\ b.type = "image"
                    /\ \/ e = "png" /\ b.media_type = "image/png"
                       \/ e = "jpg" /\ b.media_type = "image/jpeg"
                       \/ e = "jpeg" /\ b.media_type = "image/jpeg"
                       \/ e = "gif" /\ b.media_type = "image/gif"
                       \/ e = "bmp" /\ b.media_type = "image/bmp"
                       \/ e = "svg" /\ b.media_type = "image/svg+xml"
                 \/ /\ b.type = "document"
                    /\ e = "pdf" /\ b.media_type = "application/pdf"
              /\ b.media_type # "application/octet-stream"
    /\ \A i \in 1..fileIdx :
          LET f == linkedFiles[i]
          IN  (f.extension \notin {"png", "jpg", "jpeg", "gif", "bmp", "svg", "pdf"}
               /\ outcome[linkOf[i]] # "unreadable")
                 => /\ ~HasBlockFor(f.path)
                    /\ \E n \in 1..Len(ctxNotices) :
                          ctxNotices[n] = "Unsupported file type: " \o f.extension

\* C16 witness: b.jpg and c.jpeg were attached as image/jpeg blocks and
\* n.txt was refused with the unsupported-type notice.
C16_Witness ==
    /\ cpc = "dispatched"
    /\ discovered = << "b.jpg", "c.jpeg", "n.txt" >>
    /\ Len(Attachments) = 2
    /\ Attachments[2] = [type |-> "image", media_type |-> "image/jpeg",
                         data |-> "base64:c.jpeg"]
    /\ ctxNotices = << "Unsupported file type: txt" >>

-----------------------------------------------------------------------------
(* splitConcatenatedJSON on the concatenation of a list of JSON objects.    *)

MaxObjects == 3

\* JSON object strings as they occur in payloads; the last one holds `}{`
\* inside its content string
JsonObjects == { Obj("c"), Obj(""), "{\"id\":1}", "{\"choices\":[]}",
                 "{\"choices\":[{\"delta\":{}}]}", Obj("q}{r") }

ObjectLists == UNION { [1..n -> JsonObjects] : n \in 0..MaxObjects }

InitSplit ==
    /\ joinedObjects \in ObjectLists
    /\ pieces = << >> /\ jpc = "join"
    /\ IdleSSE /\ IdleSink /\ IdleCtx /\ IdleInvocations /\ IdleRegistry

\* the objects are joined with no separator and the joined string is split
SplitJoined ==
    /\ jpc = "join"
    /\ pieces' = splitConcatenatedJSON(ConcatAll(joinedObjects))
    /\ jpc' = "split"
    /\ UNCHANGED joinedObjects
    /\ UNCHANGED <<sseVars, sinkVars, ctxVars, invVars, regVars>>

NextSplit == SplitJoined

SpecSplit == InitSplit /\ [][NextSplit]_vars

NoBoundaryInside(o) == IndexOf(o, "}{", 1) = 0

\* C17 as stated: for any list of valid JSON object strings none of which
\* contains `}{`, splitting their concatenation returns exactly that list.
C17_SplitRoundTripAnyList ==
    (jpc = "split" /\ \A i \in 1..Len(joinedObjects) :
                         JSONParse(joinedObjects[i]).ok /\ NoBoundaryInside(joinedObjects[i]))
        => pieces = joinedObjects

\* C17 amended: for any non-empty list of valid JSON object strings none of
\* which contains `}{`, splitting their concatenation returns exactly that
\* list, in order.
C17_SplitRoundTripNonEmpty ==
    (jpc = "split" /\ joinedObjects # << >>
     /\ \A i \in 1..Len(joinedObjects) :
           JSONParse(joinedObjects[i]).ok /\ NoBoundaryInside(joinedObjects[i]))
        => pieces = joinedObjects

\* C17 witness: three different objects were joined and recovered.
C17_Witness ==
    /\ jpc = "split" /\ Len(joinedObjects) = 3
    /\ joinedObjects[1] # joinedObjects[2] /\ joinedObjects[2] # joinedObjects[3]
    /\ \A i \in 1..3 : NoBoundaryInside(joinedObjects[i])
    /\ pieces = joinedObjects

-----------------------------------------------------------------------------
(* Further claims about the SSE decoders, checked under SpecSSE.            *)

\* C18: neither decoder ever emits a delta event whose text is empty; a
\* frame whose choices[0].delta.content is missing, null or the empty string
\* produces no event.
C18_NoEmptyDeltaEmitted ==
    \A i \in 1..Len(emitted) : emitted[i] # ""

-----------------------------------------------------------------------------
(* Further claims about the streaming sink, checked under SpecSink.         *)

\* the text of the event that a step of the loop pulled from the stream
PulledEvent == events[consumed + 1]

\* C19: while the events of the native-streaming adapter are consumed, a
\* step that takes an event changes the document only if the event is a
\* content-block delta that carries text, and then exactly that text is
\* inserted and nothing is removed; every other event (block start/stop,
\* message start/stop, a delta without text) leaves the document unchanged,
\* shows no notice and does not end the run in an error.
C19_OnlyTextDeltasChangeDocument ==
    [][(/\ spc = "awaitEvent" /\ consumed' = consumed + 1
        /\ getPromptStream(llmProvider) = "createAnthropicStream")
          => IF PulledEvent.type = "content_block_delta" /\ PulledEvent.hasText
             THEN \E k \in 0..Len(doc) :
                     doc' = SliceTo(doc, k) \o PulledEvent.text \o SliceFrom(doc, k)
             ELSE doc' = doc /\ notices' = notices
                  /\ spc' \notin {"failed", "editorFailed"}]_vars

\* C20: the adapter called is determined by the prompt's provider value
\* alone: createDeepSeekStream for "deepseek", createOpenAIStream for
\* "openai", createAnthropicStream for every other value; one adapter is
\* called per invocation, none before the provider call.
C20_AdapterByProviderValue ==
    /\ Len(adapters) = (IF spc \in {"start", "call"} THEN 0 ELSE 1)
    /\ Len(adapters) = providerCalls
    /\ \A i \in 1..Len(adapters) :
          adapters[i] = (IF llmProvider = "deepseek" THEN "createDeepSeekStream"
                         ELSE IF llmProvider = "openai" THEN "createOpenAIStream"
                         ELSE "createAnthropicStream")

\* C20 witness: a run for the unknown provider name "mistral" completed
\* through the native-streaming adapter.
C20_Witness ==
    /\ llmProvider = "mistral" /\ spc = "done"
    /\ adapters = << "createAnthropicStream" >>

\* the text the reader has delivered so far
Delivered == SliceTo(stream, pos)

\* C24: when the input ends while the carry-over buffer of the DeepSeek
\* decoder holds a non-blank remainder that is a `data: ` frame with a valid
\* payload, the final parse makes that frame contribute its content: the
\* decoder's last emitted texts are the frame's contents.
C24_UnterminatedLastFrameEmitted ==
    (/\ parser = "deepseek" /\ pc = "done" /\ status = "exhausted"
     /\ Trim(buffer) # "" /\ IsDataLine(buffer) /\ FrameContents(buffer) # << >>)
        => /\ Len(emitted) >= Len(FrameContents(buffer))
           /\ SubSeq(emitted, Len(emitted) - Len(FrameContents(buffer)) + 1, Len(emitted))
                 = FrameContents(buffer)

\* C30: whenever parseDeepSeekJSONSSE is about to read, its carry-over
\* buffer holds no newline and is exactly the text delivered after the last
\* newline delivered so far, and the lines its loop has visited are exactly
\* the complete lines of the delivered text, each once and in order.
C30_BufferIsTextAfterLastNewline ==
    (parser = "deepseek" /\ pc = "read")
        => /\ IndexOf(buffer, "\n", 1) = 0
           /\ buffer = SplitLines(Delivered)[Len(SplitLines(Delivered))]
           /\ processed = AllButLast(SplitLines(Delivered))
           /\ ConcatAll([i \in 1..Len(processed) |-> processed[i] \o "\n"]) \o buffer
                 = Delivered

\* C30 witness: a read ended inside a line after two complete lines; the
\* buffer holds the begun line.
C30_Witness ==
    /\ parser = "deepseek" /\ pc = "read"
    /\ Len(processed) = 2 /\ buffer # "" /\ pos < Len(stream)

\* The decoders over an input whose reader reports done: every read settles
\* with a chunk or with done, never with an error.
NextSSEFinite == ReadChunk \/ Resume \/ ReadEnd \/ ParseTail

SpecSSEFinite == InitSSE /\ [][NextSSEFinite]_vars

\* what a decoder still has to do: input to read, lines of the current chunk
\* to visit, and the position in its code
PcRank == IF pc = "lines" THEN 3 ELSE IF pc = "read" THEN 2 ELSE IF pc = "tail" THEN 1 ELSE 0

\* C26: on every finite input each decoder eventually finishes: until it has
\* finished, the guard of one of its steps holds (a read that settles, a
\* resumption by the consumer, the parse of the leftover), and every step
\* strictly decreases, in lexicographic order, the
\* triple of unread input, lines left to visit and code position, so no run
\* goes on for ever. It finishes in one of two ways only: terminated, after a
\* done sentinel was processed, with no input read afterwards; or exhausted,
\* with the whole input read and no sentinel processed.
C26_DecoderFinishes ==
    /\ [](\/ pc = "done"
          \/ (pc = "read" /\ pos < Len(stream))     \* guard of ReadChunk
          \/ (pc = "read" /\ pos = Len(stream))     \* guard of ReadEnd
          \/ pc = "lines"                           \* guard of Resume
          \/ pc = "tail")                           \* guard of ParseTail
    /\ [][\/ Len(stream) - pos' < Len(stream) - pos
           \/ (pos' = pos /\ Len(lines') < Len(lines))
           \/ (pos' = pos /\ Len(lines') = Len(lines) /\ PcRank' < PcRank)]_vars
    /\ [](pc = "done" =>
            \/ (status = "terminated" /\ sentinelSeen)
            \/ (status = "exhausted" /\ ~sentinelSeen /\ pos = Len(stream)))
    /\ [][(sentinelSeen \/ pc = "done") => pos' = pos]_vars

\* C26 witness: a decoder finished on the sentinel with input left unread.
C26_Witness ==
    pc = "done" /\ status = "terminated" /\ sentinelSeen /\ pos < Len(stream)

\* the number of attachment blocks that carry the file the link names
BlocksFor(fileName) ==
    Cardinality({k \in 1..Len(Attachments) : Attachments[k].data = "base64:" \o fileName})

\* the number of embed links of the note that name fileName
LinksTo(fileName) ==
    Cardinality({i \in 1..Len(LinkNames(note)) : LinkNames(note)[i] = fileName})

\* C28: when the request is issued, every embed link that occurs once in the
\* note has at most one attachment block in the payload, whatever the
\* selection was.
C28_OneBlockPerLink ==
    cpc = "dispatched"
        => \A i \in 1..Len(LinkNames(note)) :
              LinksTo(LinkNames(note)[i]) = 1 => BlocksFor(LinkNames(note)[i]) <= 1

\* the front matter of the note is matched and YAML.parse throws on it
YamlUnparsable ==
    YamlMatch(content).found /\ ~YamlParse(YamlMatch(content).yaml).ok

YamlNotices ==
    {i \in 1..Len(ctxNotices) : StartsWith(ctxNotices[i], "Error parsing YAML front matter: ")}

\* C29: for a note whose front matter YAML cannot be parsed, once the text
\* block is built exactly one YAML warning has been shown, the tag list is
\* empty, the body is the note after the front matter block, and the text
\* block is in the payload; the step that meets the parse error ends at the
\* await of the link resolution, not in an exception, and the later steps
\* lead to the request being issued with that payload.
C29_YamlErrorHandled ==
    /\ []((YamlUnparsable /\ cpc \in {"built", "dispatched"})
            => /\ Cardinality(YamlNotices) = 1
               /\ tags = << >>
               /\ note = TrimStart(SliceFrom(content, YamlMatch(content).len))
               /\ ~StartsWith(note, "---")
               /\ Len(contentArray) >= 1 /\ contentArray[1] = TextBlock(textContent))
    /\ [][(YamlUnparsable /\ cpc = "capture") => cpc' = "built"]_vars
    /\ [][(YamlUnparsable /\ cpc = "built") => cpc' \in {"built", "dispatched"}]_vars

\* C29 witness: the request is issued for the note whose front matter is
\* `k: [`, with the body AB and one warning.
C29_Witness ==
    /\ YamlUnparsable /\ cpc = "dispatched"
    /\ note = "AB" /\ ctxNotices = YamlErrorNotice /\ tags = << >>

\* C21: once the DeepSeek or OpenAI adapter has received a response that is
\* not ok, the invocation has failed and stays failed: no event of a body was
\* ever consumed and no delta inserted, the document is the initial one
\* without the selection, exactly one notice is shown, which names the
\* provider and the status, and the provider was called once and is not
\* called again.
C21_NonOkResponseAborts ==
    /\ [](responseStatus \in HttpStatuses
            => /\ spc = "failed"
               /\ consumed = 0 /\ applied = << >>
               /\ doc = ReplaceSelection(doc0, from0, to0, "")
               /\ notices = << "Error: "
                                \o (IF llmProvider = "deepseek" THEN "DeepSeek" ELSE "OpenAI")
                                \o " API error: " \o responseStatus \o " " >>
               /\ llmProvider \in {"deepseek", "openai"}
               /\ providerCalls = 1)
    /\ [][(responseStatus \in HttpStatuses)
            => (spc' = spc /\ providerCalls' = providerCalls
                /\ notices' = notices /\ doc' = doc)]_vars

\* C21 witness: the OpenAI adapter got a 401 response; the invocation failed
\* with the one notice, and the user has moved the cursor since.
C21_Witness ==
    /\ llmProvider = "openai" /\ responseStatus = "401" /\ spc = "failed"
    /\ notices = << "Error: OpenAI API error: 401 " >> /\ userActs = 1

-----------------------------------------------------------------------------
(* Invocations: executePrompt and executePromptStream run for two           *)
(* invocations of one prompt command on one editor, while the user changes  *)
(* the selection (SpecInvocations) or the settings tab edits the prompt     *)
(* (SpecPromptEdits) between their suspension points.  The blocks and       *)
(* notices of the attachment loop are SpecCtx's; here a read only takes     *)
(* time.                                                                    *)

Invocations == {1, 2}

MaxPromptEdits == 1

\* the delta texts the provider streams to invocation i
InvEvents(i) == IF i = 1 THEN << "X", "Y" >> ELSE << "P" >>

\* a note with one embedded image
InvDocs == {"ab![[a.png]]"}

\* the selections the user makes: the cursor at the start, the first two
\* characters, everything from the third character on
UserSelections(d) == { <<0, 0>>, <<0, 2>>, <<2, Len(d)>> }

DefaultPrompt ==
    [promptText |-> "Summarize", useSelectionAsInstruction |-> TRUE,
     llmProvider |-> "anthropic", model |-> "claude-3"]

\* what one onChange handler of the settings tab makes of the prompt p:
\* prompt.llmProvider = value, prompt.model = value, prompt.promptText =
\* value, prompt.useSelectionAsInstruction = value
PromptEdits(p) ==
    { [p EXCEPT !.promptText = "Translate"],
      [p EXCEPT !.useSelectionAsInstruction = ~@],
      [p EXCEPT !.llmProvider = IF @ = "deepseek" THEN "openai" ELSE "deepseek"],
      [p EXCEPT !.model = "deepseek-chat"] } \ {p}

NoPrompt ==
    [promptText |-> "", useSelectionAsInstruction |-> FALSE, llmProvider |-> "", model |-> ""]

NoRequest == [adapter |-> "", system |-> "", model |-> "", text |-> ""]

\* an invocation that has not begun: ipc is its position ("idle" | "reading"
\* | "awaitStream" | "awaitEvent" | "done" | "failed"), reads the linked
\* files still to read, the next seven fields the locals of executePrompt,
\* request what the adapter was called with, taken the events consumed;
\* history: invokedWith the prompt at the invocation, deleted the text the
\* sink removed, editedWhileReading whether the prompt was edited while the
\* invocation was reading its linked files
NotInvoked ==
    [ipc |-> "idle", reads |-> 0,
     selectedText |-> "", systemPrompt |-> "", useSelectionAsInstruction |-> FALSE,
     llmProvider |-> "", model |-> "", note |-> "", textContent |-> "",
     request |-> NoRequest, taken |-> 0,
     invokedWith |-> NoPrompt, deleted |-> "", editedWhileReading |-> FALSE]

RequestFromSettings(l) ==
    [adapter |-> getPromptStream(prompt.llmProvider), system |-> prompt.promptText,
     model |-> prompt.model, text |-> l.textContent]

\* this.executePromptStream(systemPrompt, contentArray, editor, llmProvider,
\* model) and getPromptStream: the adapter called and its arguments
Request(l) ==
    [adapter |-> getPromptStream(l.llmProvider), system |-> l.systemPrompt,
     model |-> l.model, text |-> l.textContent]

MayStartExclusive(i) ==
    \A j \in Invocations \ {i} : inv[j].ipc \in {"idle", "done", "failed"}

\* the editorCallback of the prompt command: it calls executePrompt and
\* tests nothing.  (Invocation 2 is the one that begins second.)
MayStart(i) == TRUE

\* the text block executePrompt builds from its locals
TextOf(mode, ti, ts, n, c, f, t) ==
    LET sel == SubSeq(c, f + 1, t)
    IN  IF sel # ""
        THEN IF mode THEN createTaskSelectionContent(ti, ts, SliceSelection(n, c, f, t), sel)
             ELSE createSelectionContent(sel)
        ELSE createContent(ti, ts, n)

InitInvocations ==
    /\ edoc \in InvDocs
    /\ \E sel \in UserSelections(edoc) : eFrom = sel[1] /\ eTo = sel[2]
    /\ prompt = DefaultPrompt
    /\ inv = [i \in Invocations |-> NotInvoked]
    /\ writes = << >> /\ invNotices = << >> /\ invUserActs = 0 /\ promptEdits = 0
    /\ IdleSSE /\ IdleSink /\ IdleCtx /\ IdleSplit /\ IdleRegistry

\* executePromptStream from its entry to the await of the provider call, run
\* for invocation i with the locals l: the current selection is removed, the
\* cursor set to its start, the adapter called
StartStream(i, l) ==
    /\ edoc' = ReplaceSelection(edoc, eFrom, eTo, "")
    /\ eFrom' = eFrom /\ eTo' = eFrom
    /\ inv' = [inv EXCEPT ![i] = [l EXCEPT !.ipc = "awaitStream", !.reads = 0,
                                           !.deleted = SubSeq(edoc, eFrom + 1, eTo),
                                           !.request = Request(l)]]

\* the command is invoked: executePrompt from its entry to the first read of
\* a linked file; with no linked file the await of getLinkedFiles resumes in
\* the same task and executePromptStream runs at once
Invoke(i) ==
    /\ inv[i].ipc = "idle" /\ MayStart(i)
    /\ \A j \in Invocations : j < i => inv[j].ipc # "idle"
    /\ LET ex == extractYamlAndContentFromEditor(edoc)
           sel == SubSeq(edoc, eFrom + 1, eTo)
           files == getLinkedFiles(ex.noteContent \o "\n" \o sel).files
           l == [inv[i] EXCEPT
                   !.selectedText = sel,
                   !.systemPrompt = prompt.promptText,
                   !.useSelectionAsInstruction = prompt.useSelectionAsInstruction,
                   !.llmProvider = prompt.llmProvider,
                   !.model = prompt.model,
                   !.note = ex.noteContent,
                   !.textContent = TextOf(prompt.useSelectionAsInstruction, "T", ex.tags,
                                          ex.noteContent, edoc, eFrom, eTo),
                   !.invokedWith = prompt,
                   !.reads = Len(files)]
       IN  IF files = << >>
           THEN StartStream(i, l)
           ELSE /\ inv' = [inv EXCEPT ![i] = [l EXCEPT !.ipc = "reading"]]
                /\ UNCHANGED <<edoc, eFrom, eTo>>
    /\ UNCHANGED <<prompt, writes, invNotices, invUserActs, promptEdits>>
    /\ UNCHANGED <<sseVars, sinkVars, ctxVars, splitVars, regVars>>

\* await this.app.vault.readBinary(file) settles (resolved or rejected, the
\* loop goes on either way); after the last file executePromptStream runs
ReadSettles(i) ==
    /\ inv[i].ipc = "reading"
    /\ IF inv[i].reads = 1
       THEN StartStream(i, inv[i])
       ELSE /\ inv' = [inv EXCEPT ![i].reads = @ - 1]
            /\ UNCHANGED <<edoc, eFrom, eTo>>
    /\ UNCHANGED <<prompt, writes, invNotices, invUserActs, promptEdits>>
    /\ UNCHANGED <<sseVars, sinkVars, ctxVars, splitVars, regVars>>

\* the awaited provider call of invocation i resolves with the stream
InvStreamCreated(i) ==
    /\ inv[i].ipc = "awaitStream"
    /\ inv' = [inv EXCEPT ![i].ipc = "awaitEvent"]
    /\ UNCHANGED <<edoc, eFrom, eTo, prompt, writes, invNotices, invUserActs, promptEdits>>
    /\ UNCHANGED <<sseVars, sinkVars, ctxVars, splitVars, regVars>>

\* the awaited provider call of invocation i rejects: one Notice (a stream
\* that throws later is SpecSink's StreamThrows)
InvFails(i) ==
    /\ inv[i].ipc = "awaitStream"
    /\ \E msg \in TransportErrors(inv[i].llmProvider) :
          invNotices' = ErrorNotice(invNotices, msg)
    /\ inv' = [inv EXCEPT ![i].ipc = "failed"]
    /\ UNCHANGED <<edoc, eFrom, eTo, prompt, writes, invUserActs, promptEdits>>
    /\ UNCHANGED <<sseVars, sinkVars, ctxVars, splitVars, regVars>>

\* the stream of invocation i yields its next delta: editor.replaceSelection
InvNextEvent(i) ==
    /\ inv[i].ipc = "awaitEvent" /\ inv[i].taken < Len(InvEvents(i))
    /\ LET text == InvEvents(i)[inv[i].taken + 1]
       IN  /\ edoc' = ReplaceSelection(edoc, eFrom, eTo, text)
           /\ eFrom' = CursorAfterReplace(eFrom, text)
           /\ eTo' = CursorAfterReplace(eFrom, text)
           /\ writes' = Append(writes, <<i, text>>)
    /\ inv' = [inv EXCEPT ![i].taken = @ + 1]
    /\ UNCHANGED <<prompt, invNotices, invUserActs, promptEdits>>
    /\ UNCHANGED <<sseVars, sinkVars, ctxVars, splitVars, regVars>>

\* the stream of invocation i is exhausted
InvStreamEnds(i) ==
    /\ inv[i].ipc = "awaitEvent" /\ inv[i].taken = Len(InvEvents(i))
    /\ inv' = [inv EXCEPT ![i].ipc = "done"]
    /\ UNCHANGED <<edoc, eFrom, eTo, prompt, writes, invNotices, invUserActs, promptEdits>>
    /\ UNCHANGED <<sseVars, sinkVars, ctxVars, splitVars, regVars>>

\* an invocation is suspended at an await
InFlight == \E i \in Invocations : inv[i].ipc \in {"reading", "awaitStream", "awaitEvent"}

\* the user moves the cursor or selects text in the editor while an
\* invocation is in flight
UserReselects ==
    /\ invUserActs < MaxUserActs /\ InFlight
    /\ \E sel \in UserSelections(edoc) :
          /\ sel[2] <= Len(edoc) /\ sel[1] <= sel[2]
          /\ sel # <<eFrom, eTo>>
          /\ eFrom' = sel[1] /\ eTo' = sel[2]
    /\ invUserActs' = invUserActs + 1
    /\ UNCHANGED <<edoc, prompt, inv, writes, invNotices, promptEdits>>
    /\ UNCHANGED <<sseVars, sinkVars, ctxVars, splitVars, regVars>>

\* an onChange handler of the settings tab assigns one field of the prompt
\* while an invocation is in flight
EditPrompt ==
    /\ promptEdits < MaxPromptEdits /\ InFlight
    /\ \E p \in PromptEdits(prompt) : prompt' = p
    /\ inv' = [i \in Invocations |->
                 [inv[i] EXCEPT !.editedWhileReading = @ \/ inv[i].ipc = "reading"]]
    /\ promptEdits' = promptEdits + 1
    /\ UNCHANGED <<edoc, eFrom, eTo, writes, invNotices, invUserActs>>
    /\ UNCHANGED <<sseVars, sinkVars, ctxVars, splitVars, regVars>>

\* the two invocations and the user at the editor
NextInvocations ==
    \/ \E i \in Invocations : Invoke(i)
    \/ \E i \in Invocations : ReadSettles(i)
    \/ \E i \in Invocations : InvStreamCreated(i)
    \/ \E i \in Invocations : InvFails(i)
    \/ \E i \in Invocations : InvNextEvent(i)
    \/ \E i \in Invocations : InvStreamEnds(i)
    \/ UserReselects

SpecInvocations == InitInvocations /\ [][NextInvocations]_vars

\* the two invocations and the settings tab
NextPromptEdits ==
    \/ \E i \in Invocations : Invoke(i)
    \/ \E i \in Invocations : ReadSettles(i)
    \/ \E i \in Invocations : InvStreamCreated(i)
    \/ \E i \in Invocations : InvFails(i)
    \/ \E i \in Invocations : InvNextEvent(i)
    \/ \E i \in Invocations : InvStreamEnds(i)
    \/ EditPrompt

SpecPromptEdits == InitInvocations /\ [][NextPromptEdits]_vars

\* invocation i has called its adapter
Dispatched(i) == inv[i].ipc \in {"awaitStream", "awaitEvent", "done", "failed"}

\* invocation i is between its adapter call and the end of its stream
Streaming(i) == inv[i].ipc \in {"awaitStream", "awaitEvent"}

\* C22: while one invocation is streaming, a second invocation of the command
\* can begin, and a streaming invocation can take its next delta while the
\* other one streams: no step of an invocation waits for the other.
C22_NoMutualExclusion ==
    \A i \in Invocations : \A j \in Invocations \ {i} :
        /\ (Streaming(i) /\ inv[j].ipc = "idle") => MayStart(j)
        /\ (Streaming(i) /\ inv[j].ipc = "awaitEvent" /\ inv[j].taken < Len(InvEvents(j)))
              => ENABLED InvNextEvent(j)

\* C22 witness: the second invocation began while the first streamed, and
\* their deltas were inserted alternately.
C22_Witness ==
    /\ writes = << <<1, "X">>, <<2, "P">>, <<1, "Y">> >>
    /\ edoc = "XPYab![[a.png]]"

\* C23: the text an invocation's sink has removed from the editor is the
\* selection that invocation captured when it began.
C23_SinkDeletesCapturedSelection ==
    \A i \in Invocations : Dispatched(i) => inv[i].deleted = inv[i].selectedText

\* C25: the request of an in-flight invocation is made of the prompt as it
\* was when the command was invoked: the adapter of that provider, that
\* prompt text, that model, the text block of that selection mode; and no
\* step, an edit of the prompt included, changes the request afterwards.
C25_InFlightUsesPromptAsInvoked ==
    /\ [](\A i \in Invocations :
            Dispatched(i)
              => /\ inv[i].request.adapter = getPromptStream(inv[i].invokedWith.llmProvider)
                 /\ inv[i].request.system = inv[i].invokedWith.promptText
                 /\ inv[i].request.model = inv[i].invokedWith.model
                 /\ inv[i].useSelectionAsInstruction
                      = inv[i].invokedWith.useSelectionAsInstruction
                 /\ inv[i].request.text \in
                      { IF inv[i].selectedText = ""
                        THEN createContent("T", << >>, inv[i].note)
                        ELSE IF inv[i].invokedWith.useSelectionAsInstruction
                        THEN createTaskSelectionContent("T", << >>, sl, inv[i].selectedText)
                        ELSE createSelectionContent(inv[i].selectedText)
                        : sl \in {SliceSelection(inv[i].note, inv[i].note, f, f + Len(inv[i].selectedText))
                                    : f \in 0..Len(inv[i].note)} })
    /\ [][\A i \in Invocations :
            Dispatched(i) => inv'[i].request = inv[i].request]_vars

\* C25 witness: the provider of the prompt was edited while the first
\* invocation was reading its attachment; its request went to the adapter of
\* the provider it was invoked with.
C25_Witness ==
    /\ inv[1].ipc = "awaitEvent" /\ inv[1].editedWhileReading
    /\ inv[1].request.adapter = "createAnthropicStream"
    /\ prompt.llmProvider = "deepseek"

-----------------------------------------------------------------------------
(* The command registry: onload, the settings tab's Add / Move / Delete /   *)
(* edit handlers and saveSettings, whose calls are not awaited and overlap. *)

MaxRegOps == 3

\* the key under which the host's addCommand files a command id: the plain
\* id, or the id behind the plugin's id and a colon (Obsidian's documented
\* behaviour); the host is not part of this repository
HostPrefixes == {"", "obsidian-llm-buddy:"}

\* `anthropic-prompt-${prompt.id}`
CommandId(id) == "anthropic-prompt-" \o id

AdHocCommandId == "anthropic-adhoc-prompt"

\* this.addCommand({id, ...}): the key the host files the command under
HostKey(commandId) == hostPrefix \o commandId

\* unregisterAllCommands: delete host[commandId] for every registered id
unregisterAllCommands(registered, table) ==
    table \ {registered[k] : k \in 1..Len(registered)}

\* registerAllPrompts on an empty registeredCommands: the ids pushed
Registered(ps) == [k \in 1..Len(ps) |-> CommandId(ps[k])]

\* registerAllPrompts: the host table after addCommand for every prompt
registerAllPrompts(ps, table) ==
    table \cup {HostKey(CommandId(ps[k])) : k \in 1..Len(ps)}

\* prompts.splice(index, 1), index counted from 0
Splice(ps, index) == SubSeq(ps, 1, index) \o SubSeq(ps, index + 2, Len(ps))

\* [prompts[i], prompts[j]] = [prompts[j], prompts[i]], indices from 0
Swap(ps, i, j) ==
    [k \in 1..Len(ps) |-> IF k = i + 1 THEN ps[j + 1] ELSE IF k = j + 1 THEN ps[i + 1] ELSE ps[k]]

\* the prompt lists loadSettings finds
StoredPrompts == { << >>, << "1" >>, << "1", "2" >> }

\* the state after onload: settings loaded, every prompt registered, the
\* ad-hoc command added
InitRegistry ==
    /\ prompts \in StoredPrompts
    /\ hostPrefix \in HostPrefixes
    /\ registeredCommands = Registered(prompts)
    /\ hostCommands = registerAllPrompts(prompts, {}) \cup {HostKey(AdHocCommandId)}
    /\ hostEditorCommands = registerAllPrompts(prompts, {}) \cup {HostKey(AdHocCommandId)}
    /\ pendingSaves = 0 /\ justSaved = FALSE /\ removedIds = {} /\ nextId = 3
    /\ regOps = 0
    /\ IdleSSE /\ IdleSink /\ IdleCtx /\ IdleSplit /\ IdleInvocations

\* this.plugin.saveSettings() is called and runs to its await of saveData
CallSaveSettings ==
    /\ pendingSaves' = pendingSaves + 1
    /\ regOps' = regOps + 1
    /\ justSaved' = FALSE
    /\ UNCHANGED <<registeredCommands, hostCommands, hostEditorCommands, hostPrefix>>
    /\ UNCHANGED <<sseVars, sinkVars, ctxVars, splitVars, invVars>>

\* Add Prompt: a prompt with id Date.now().toString() is pushed
AddPrompt ==
    /\ regOps < MaxRegOps
    /\ prompts' = Append(prompts, ToString(nextId))
    /\ nextId' = nextId + 1
    /\ UNCHANGED removedIds
    /\ CallSaveSettings

\* Delete on the prompt at index
DeletePrompt ==
    /\ regOps < MaxRegOps
    /\ \E index \in 0..(Len(prompts) - 1) :
          /\ prompts' = Splice(prompts, index)
          /\ removedIds' = removedIds \cup {prompts[index + 1]}
    /\ UNCHANGED nextId
    /\ CallSaveSettings

\* Move Up on the prompt at index: nothing happens at index 0
MoveUp ==
    /\ regOps < MaxRegOps
    /\ \E index \in 1..(Len(prompts) - 1) : prompts' = Swap(prompts, index - 1, index)
    /\ UNCHANGED <<removedIds, nextId>>
    /\ CallSaveSettings

\* Move Down on the prompt at index: nothing happens at the last index
MoveDown ==
    /\ regOps < MaxRegOps
    /\ \E index \in 0..(Len(prompts) - 2) : prompts' = Swap(prompts, index, index + 1)
    /\ UNCHANGED <<removedIds, nextId>>
    /\ CallSaveSettings

\* an onChange handler of a text field, dropdown or toggle: a field is
\* assigned, the list is left as it is
EditSetting ==
    /\ regOps < MaxRegOps
    /\ UNCHANGED <<prompts, removedIds, nextId>>
    /\ CallSaveSettings

\* saveData resolves: saveSettings goes on with unregisterAllCommands and
\* registerAllPrompts, in one task
SaveCompletes ==
    /\ pendingSaves > 0
    /\ pendingSaves' = pendingSaves - 1
    /\ registeredCommands' = Registered(prompts)
    /\ hostCommands' = registerAllPrompts(prompts,
                           unregisterAllCommands(registeredCommands, hostCommands))
    /\ hostEditorCommands' = registerAllPrompts(prompts,
                           unregisterAllCommands(registeredCommands, hostEditorCommands))
    /\ justSaved' = TRUE
    /\ UNCHANGED <<prompts, hostPrefix, removedIds, nextId, regOps>>
    /\ UNCHANGED <<sseVars, sinkVars, ctxVars, splitVars, invVars>>

\* saveData rejects: saveSettings ends in an exception before it touches
\* the commands
SaveFails ==
    /\ pendingSaves > 0
    /\ pendingSaves' = pendingSaves - 1
    /\ justSaved' = FALSE
    /\ UNCHANGED <<prompts, registeredCommands, hostCommands, hostEditorCommands,
                   hostPrefix, removedIds, nextId, regOps>>
    /\ UNCHANGED <<sseVars, sinkVars, ctxVars, splitVars, invVars>>

NextRegistry ==
    \/ AddPrompt
    \/ DeletePrompt
    \/ MoveUp
    \/ MoveDown
    \/ EditSetting
    \/ SaveCompletes
    \/ SaveFails

SpecRegistry == InitRegistry /\ [][NextRegistry]_vars

\* some key of the host table t refers to the command of the prompt id
HostHolds(t, id) == \E key \in t : EndsWith(key, CommandId(id))

\* C27: right after a saveSettings has completed, registeredCommands is the
\* list of the ids anthropic-prompt-<id> of settings.prompts, one per entry,
\* in list order, and no command of a deleted prompt is left in the host's
\* command tables.
C27_RegistryMatchesPrompts ==
    justSaved
        => /\ registeredCommands = [k \in 1..Len(prompts) |-> "anthropic-prompt-" \o prompts[k]]
           /\ \A id \in removedIds :
                 ~HostHolds(hostCommands, id) /\ ~HostHolds(hostEditorCommands, id)

\* the part of C27 about the plugin's own list alone: it holds for either
\* way the host files its keys
C27_RegisteredListMatches ==
    justSaved
        => registeredCommands = [k \in 1..Len(prompts) |-> "anthropic-prompt-" \o prompts[k]]

====
